---- MODULE Spec2Model ----
(***************************************************************************)
(* Model of the data-aggregation core of the CEO war-room dashboard:       *)
(*   - the versioned TTL cache and the read-through helper  cached         *)
(*   - the timeout guard  withTimeout  and the fan-out  fetchAllWithTimeout*)
(*   - the per-brand aggregators and the dashboard's delta computation     *)
(*   - the overview aggregator, the period windows and the delta utilities *)
(* Each part has its own specification over the shared variables; the      *)
(* variables of the other parts stay at their initial values.              *)
(***************************************************************************)
EXTENDS Integers, Sequences, FiniteSets, TLC

VARIABLES
    now,            \* Date.now(), in abstract milliseconds
    CACHE_VERSION,  \* the process epoch stamped on cache entries
    store,          \* Cache.store : key -> entry (NoEntry when the key is absent)
    calls,          \* the activations of cached(): one record per call slot
    lastOp,         \* the last cache operation performed and what it returned
    fa,             \* the activation of fetchAllWithTimeout and its arguments
    ent,            \* per entry: the operation, its timer, the race, withTimeout
    results,        \* fetchAllWithTimeout's  results  Map: key -> value
    agg,            \* one activation of a brand aggregator and its payload
    dash,           \* the dashboard component's payloads and computed deltas
    ovw,            \* one activation of getOverviewData or of the first getGtopData
    per,            \* a period selection, the day it is made and its windows
    calc,           \* one application of calculateDelta or parseMetricValue
    ui,             \* the dashboard component: selection, flags, requests in flight
    ads,            \* the ads sheets, their account summaries and the blended figures
    pg              \* one activation of getOrders and its page loop

cacheVars == <<CACHE_VERSION, store, calls, lastOp>>
timeoutVars == <<fa, ent, results>>
utilVars == <<ovw, per, calc>>
extVars == <<ui, ads, pg>>
uiFrame == <<now, cacheVars, timeoutVars, agg, dash, utilVars, ads, pg>>
adsFrame == <<now, cacheVars, timeoutVars, agg, dash, utilVars, ui, pg>>
ordersFrame ==
    <<now, CACHE_VERSION, calls, lastOp, timeoutVars, agg, dash, utilVars, ui, ads>>
vars == <<now, cacheVars, timeoutVars, agg, dash, utilVars, extVars>>

(***************************************************************************)
(* Bounds of the model.                                                    *)
(***************************************************************************)
MaxTime == 2     \* the clock runs over 0..MaxTime
MaxEpoch == 2    \* process epochs 1..MaxEpoch
MaxEntries == 2  \* entries handed to one fetchAllWithTimeout call

(***************************************************************************)
(* Values.  JavaScript null is the string "null"; producers may return it. *)
(***************************************************************************)
NULL == "null"
Keys == {"k1", "k2"}
Values == {NULL, "v1"}
NoTTL == -1                 \* ttlMs omitted (undefined)
TTLs == {NoTTL, 1}
CallIds == {"c1", "c2"}     \* two activations of cached() may overlap

\* private defaultTTL = 5 * 60 * 1000
defaultTTL == 5 * 60 * 1000

NoEntry == [present |-> FALSE, data |-> NULL, expiry |-> 0, version |-> 0]

(***************************************************************************)
(* Cache.get : the entry is dropped when  Date.now() > expiry  or when its *)
(* version is not CACHE_VERSION; otherwise its data is returned.           *)
(***************************************************************************)
EntryInvalid_NoVersionCheck(e, t, ver) == t > e.expiry

EntryInvalid(e, t, ver) == t > e.expiry \/ e.version # ver

GetResult(st, k, t, ver) ==
    IF ~st[k].present THEN NULL
    ELSE IF EntryInvalid(st[k], t, ver) THEN NULL
    ELSE st[k].data

GetStore(st, k, t, ver) ==
    IF st[k].present /\ EntryInvalid(st[k], t, ver)
    THEN [st EXCEPT ![k] = NoEntry]
    ELSE st

(***************************************************************************)
(* Cache.set : stamps the entry with now + (ttlMs ?? defaultTTL) and the   *)
(* current CACHE_VERSION.                                                  *)
(***************************************************************************)
NewEntry_ExpiryWithoutNow(d, ttl, t, ver) ==
    [present |-> TRUE, data |-> d,
     expiry |-> (IF ttl = NoTTL THEN defaultTTL ELSE ttl),
     version |-> ver]

NewEntry_AlwaysDefaultTTL(d, ttl, t, ver) ==
    [present |-> TRUE, data |-> d, expiry |-> t + defaultTTL, version |-> ver]

NewEntry(d, ttl, t, ver) ==
    [present |-> TRUE, data |-> d,
     expiry |-> t + (IF ttl = NoTTL THEN defaultTTL ELSE ttl),
     version |-> ver]

\* A variant in which the first writer of a key wins.
SetStore_KeepPresent(st, k, d, ttl, t, ver) ==
    IF st[k].present THEN st ELSE [st EXCEPT ![k] = NewEntry(d, ttl, t, ver)]

SetStore(st, k, d, ttl, t, ver) == [st EXCEPT ![k] = NewEntry(d, ttl, t, ver)]

(***************************************************************************)
(* Bookkeeping records.                                                    *)
(*   calls[c]: pc, key and ttl are the activation's own state; ret is what *)
(*   it returned; fnCalls counts the producer invocations it made; preHad  *)
(*   tells whether the store held an entry under key when it was called;   *)
(*   alone tells that nothing else touched that key while it was suspended.*)
(*   lastOp: the most recent direct cache operation and its return value.  *)
(***************************************************************************)
IdleCall ==
    [pc |-> "idle", key |-> "k1", ttl |-> NoTTL, fnCalls |-> 0, ret |-> NULL,
     preHad |-> FALSE, alone |-> TRUE]

NoOp ==
    [op |-> "none", key |-> "k1", ret |-> NULL, pre |-> NoEntry, at |-> 0,
     ver |-> 0]

Op(o, k, r, e) ==
    [op |-> o, key |-> k, ret |-> r, pre |-> e, at |-> now,
     ver |-> CACHE_VERSION]

\* Another operation touched the store under key k after an activation on
\* that key had started (it is suspended in its await, or has thrown): that
\* activation is no longer the only one to have acted on the key.
Disturb(cs, k) ==
    [c \in CallIds |->
        IF cs[c].pc \in {"awaiting", "threw"} /\ cs[c].key = k
        THEN [cs[c] EXCEPT !.alone = FALSE]
        ELSE cs[c]]

DisturbAll(cs) ==
    [c \in CallIds |->
        IF cs[c].pc \in {"awaiting", "threw"}
        THEN [cs[c] EXCEPT !.alone = FALSE]
        ELSE cs[c]]

(***************************************************************************)
(* Cache operations.                                                       *)
(***************************************************************************)
Get(k) ==
    /\ lastOp' = Op("get", k, GetResult(store, k, now, CACHE_VERSION), store[k])
    /\ store' = GetStore(store, k, now, CACHE_VERSION)
    /\ calls' = IF store'[k] # store[k] THEN Disturb(calls, k) ELSE calls
    /\ UNCHANGED <<now, CACHE_VERSION, timeoutVars, agg, dash, utilVars, extVars>>

Set(k, d, ttl) ==
    /\ store' = SetStore(store, k, d, ttl, now, CACHE_VERSION)
    /\ lastOp' = Op("set", k, d, NewEntry(d, ttl, now, CACHE_VERSION))
    /\ calls' = Disturb(calls, k)
    /\ UNCHANGED <<now, CACHE_VERSION, timeoutVars, agg, dash, utilVars, extVars>>

Delete(k) ==
    /\ store' = [store EXCEPT ![k] = NoEntry]
    /\ lastOp' = Op("delete", k, NULL, NoEntry)
    /\ calls' = Disturb(calls, k)
    /\ UNCHANGED <<now, CACHE_VERSION, timeoutVars, agg, dash, utilVars, extVars>>

Clear ==
    /\ store' = [k \in Keys |-> NoEntry]
    /\ lastOp' = Op("clear", "k1", NULL, NoEntry)
    /\ calls' = DisturbAll(calls)
    /\ UNCHANGED <<now, CACHE_VERSION, timeoutVars, agg, dash, utilVars, extVars>>

(***************************************************************************)
(* cached(key, fn, ttlMs): lookup, then either return the hit or invoke fn *)
(* and suspend; on fulfilment store and return, on rejection propagate.    *)
(***************************************************************************)
\* The all-zero result a guarded service answers with when its request
\* failed or timed out, and the figures of an answered request.
AllZero == "zeros"
Figures == "figures"

\* A variant that does not serve a stored all-zero result.
IsHit_UnlessAllZero(existing) == existing # NULL /\ existing # AllZero

IsHit(existing) == existing # NULL

CachedCall(c, k, ttl) ==
    /\ calls[c].pc # "awaiting"
    /\ LET existing == GetResult(store, k, now, CACHE_VERSION)
           after == GetStore(store, k, now, CACHE_VERSION)
           others == IF after[k] # store[k] THEN Disturb(calls, k) ELSE calls
       IN /\ store' = after
          /\ IF IsHit(existing)
             THEN calls' = [others EXCEPT ![c] =
                      [IdleCall EXCEPT !.pc = "returned", !.key = k,
                                       !.ret = existing]]
             ELSE calls' = [others EXCEPT ![c] =
                      [IdleCall EXCEPT !.pc = "awaiting", !.key = k,
                                       !.ttl = ttl, !.fnCalls = 1,
                                       !.preHad = store[k].present]]
    /\ lastOp' = NoOp
    /\ UNCHANGED <<now, CACHE_VERSION, timeoutVars, agg, dash, utilVars, extVars>>

FnFulfil(c, r) ==
    /\ calls[c].pc = "awaiting"
    /\ store' = SetStore(store, calls[c].key, r, calls[c].ttl, now, CACHE_VERSION)
    /\ calls' = [Disturb(calls, calls[c].key) EXCEPT ![c] =
            [IdleCall EXCEPT !.pc = "returned", !.key = calls[c].key,
                             !.ret = r, !.fnCalls = calls[c].fnCalls]]
    /\ lastOp' = NoOp
    /\ UNCHANGED <<now, CACHE_VERSION, timeoutVars, agg, dash, utilVars, extVars>>

FnReject(c) ==
    /\ calls[c].pc = "awaiting"
    /\ calls' = [calls EXCEPT ![c] =
            [calls[c] EXCEPT !.pc = "threw", !.ttl = NoTTL]]
    /\ lastOp' = NoOp
    /\ UNCHANGED <<now, CACHE_VERSION, store, timeoutVars, agg, dash, utilVars, extVars>>

(***************************************************************************)
(* The guarded services on top of cached(): getOrderStats and              *)
(* getTrafficStats call cached(cacheKey, producer, TTL), where the         *)
(* producer sends one request to the provider and catches its failure or   *)
(* timeout, answering with the all-zero result.  A key stands for a        *)
(* provider and window; the TTL is one clock unit.                         *)
(***************************************************************************)
StatsTTL == 1

GetStats(c, k) ==
    /\ k \in Keys
    /\ CachedCall(c, k, StatsTTL)

\* The provider answers the request: the producer returns its figures.
ProviderAnswers(c) ==
    /\ calls[c].pc = "awaiting"
    /\ FnFulfil(c, Figures)

\* The request fails or times out: the producer's catch (or the null of
\* withTimeout) returns the all-zero result.
ProviderFails(c) ==
    /\ calls[c].pc = "awaiting"
    /\ FnFulfil(c, AllZero)

(***************************************************************************)
(* Environment: the clock advances; a redeploy gives a new epoch.  The     *)
(* epoch change keeps the store, as in the specification's test that       *)
(* simulates a process-epoch change while entries are still unexpired.     *)
(***************************************************************************)
Tick ==
    /\ now < MaxTime
    /\ now' = now + 1
    /\ UNCHANGED <<cacheVars, timeoutVars, agg, dash, utilVars, extVars>>

EpochChange ==
    /\ CACHE_VERSION < MaxEpoch
    /\ CACHE_VERSION' = CACHE_VERSION + 1
    /\ lastOp' = NoOp
    /\ UNCHANGED <<now, store, calls, timeoutVars, agg, dash, utilVars, extVars>>

(***************************************************************************)
(* withTimeout and fetchAllWithTimeout.                                    *)
(*                                                                         *)
(* Entry i of a call has: the caller's operation (op, opVal), the timer    *)
(* withTimeout arms, the Promise.race of the two, withTimeout's own        *)
(* promise (wt) and the wrapper that stores its result in the Map (wrap).  *)
(* late records that the operation settled after the timer had fired.      *)
(* A promise is [st |-> "pending" | "ok" | "err", val |-> value].          *)
(***************************************************************************)
EntryIds == 1..MaxEntries
MapKeys == {"a", "b", "c"}
Timeouts == {1, 2}
NoValue == "none"

Pending == [st |-> "pending", val |-> NoValue]
Fulfilled(v) == [st |-> "ok", val |-> v]
Rejected == [st |-> "err", val |-> NoValue]

\* The value entry i's operation fulfils with, when it does.
OpValue(i) == IF i = 1 THEN "x1" ELSE IF i = 2 THEN "x2" ELSE "x3"

\* The fallback of entry i: each entry has its own.
Fallback(i) == IF i = 1 THEN "f1" ELSE IF i = 2 THEN "f2" ELSE "f3"

IdleEntry ==
    [op |-> Pending, late |-> FALSE, timer |-> "none", race |-> Pending,
     wt |-> Pending, wrap |-> "none"]

IdleFetch ==
    [st |-> "idle", n |-> 0, keys |-> <<>>, timeoutMs |-> 0, deadline |-> 0]

Active(i) == fa.st # "idle" /\ i <= fa.n

\* Promise.race: settled by the first of its inputs to settle.
RaceAfter_LastWins(race, settlement) == settlement

RaceAfter(race, settlement) ==
    IF race.st = "pending" THEN settlement ELSE race

\* withTimeout, lines 79-86:  try { return await race } catch { return fallback }
WtOutcome_NoCatch(race, fallback) == race

WtOutcome(race, fallback) ==
    IF race.st = "ok" THEN Fulfilled(race.val) ELSE Fulfilled(fallback)

\* The wrapper, lines 98-103: results.set(key, result), or fallback on a throw.
WrapValue(wt, fallback) == IF wt.st = "ok" THEN wt.val ELSE fallback

MapSet(mp, k, v) == [x \in (DOMAIN mp) \cup {k} |-> IF x = k THEN v ELSE mp[x]]

EmptyMap == [x \in {} |-> NoValue]

\* Promise.all over the wrappers: fulfilled once every wrapper has finished.
AllWrappersDone_AnyOne(f, e) ==
    \E i \in EntryIds : i <= f.n /\ e[i].wrap = "done"

AllWrappersDone(f, e) ==
    \A i \in EntryIds : i <= f.n => e[i].wrap = "done"

\* Reactions (microtasks) are queued: they run before any timer callback.
MicrotasksPending ==
    \/ \E i \in EntryIds :
          Active(i) /\ ent[i].race.st # "pending" /\ ent[i].wrap = "running"
    \/ fa.st = "running" /\ AllWrappersDone(fa, ent)

\* Variants of the call used to test the claims about the timers: one
\* that arms no timer, and one that arms only the first entry's timer.
FetchAllCall_NoTimer(n, keys, timeoutMs, given) ==
    /\ fa.st = "idle"
    /\ fa' = [st |-> "running", n |-> n, keys |-> keys,
              timeoutMs |-> timeoutMs, deadline |-> now + timeoutMs]
    /\ ent' = [i \in EntryIds |->
                  IF i <= n
                  THEN [op |-> given[i], late |-> FALSE, timer |-> "none",
                        race |-> RaceAfter(Pending, given[i]),
                        wt |-> Pending, wrap |-> "running"]
                  ELSE IdleEntry]
    /\ results' = EmptyMap
    /\ UNCHANGED <<now, cacheVars, agg, dash, utilVars, extVars>>

FetchAllCall_OneAtATime(n, keys, timeoutMs, given) ==
    /\ fa.st = "idle"
    /\ fa' = [st |-> "running", n |-> n, keys |-> keys,
              timeoutMs |-> timeoutMs, deadline |-> now + timeoutMs]
    /\ ent' = [i \in EntryIds |->
                  IF i <= n
                  THEN [op |-> given[i], late |-> FALSE,
                        timer |-> IF i = 1 THEN "armed" ELSE "none",
                        race |-> RaceAfter(Pending, given[i]),
                        wt |-> Pending, wrap |-> "running"]
                  ELSE IdleEntry]
    /\ results' = EmptyMap
    /\ UNCHANGED <<now, cacheVars, agg, dash, utilVars, extVars>>

\* fetchAllWithTimeout(promises, timeoutMs): every wrapper runs up to its
\* await at once, so every timer is armed at the time of the call.  An
\* operation handed in may already be settled.
FetchAllCall(n, keys, timeoutMs, given) ==
    /\ fa.st = "idle"
    /\ fa' = [st |-> "running", n |-> n, keys |-> keys,
              timeoutMs |-> timeoutMs, deadline |-> now + timeoutMs]
    /\ ent' = [i \in EntryIds |->
                  IF i <= n
                  THEN [op |-> given[i], late |-> FALSE, timer |-> "armed",
                        race |-> RaceAfter(Pending, given[i]),
                        wt |-> Pending, wrap |-> "running"]
                  ELSE IdleEntry]
    /\ results' = EmptyMap
    /\ UNCHANGED <<now, cacheVars, agg, dash, utilVars, extVars>>

OpFulfil(i) ==
    /\ Active(i)
    /\ ent[i].op.st = "pending"
    /\ ent' = [ent EXCEPT ![i].op = Fulfilled(OpValue(i)),
                          ![i].late = (ent[i].timer = "fired"),
                          ![i].race = RaceAfter(ent[i].race, Fulfilled(OpValue(i)))]
    /\ UNCHANGED <<now, cacheVars, fa, results, agg, dash, utilVars, extVars>>

OpReject(i) ==
    /\ Active(i)
    /\ ent[i].op.st = "pending"
    /\ ent' = [ent EXCEPT ![i].op = Rejected,
                          ![i].late = (ent[i].timer = "fired"),
                          ![i].race = RaceAfter(ent[i].race, Rejected)]
    /\ UNCHANGED <<now, cacheVars, fa, results, agg, dash, utilVars, extVars>>

\* setTimeout(() => resolve(fallback), timeoutMs)
TimerFire(i) ==
    /\ Active(i)
    /\ ent[i].timer = "armed"
    /\ now >= fa.deadline
    /\ ~MicrotasksPending
    /\ ent' = [ent EXCEPT ![i].timer = "fired",
                          ![i].race = RaceAfter(ent[i].race, Fulfilled(Fallback(i)))]
    /\ UNCHANGED <<now, cacheVars, fa, results, agg, dash, utilVars, extVars>>

\* withTimeout resumes after its await: clearTimeout, then return or catch.
WtResume(i) ==
    /\ Active(i)
    /\ ent[i].race.st # "pending"
    /\ ent[i].wt.st = "pending"
    /\ ent' = [ent EXCEPT ![i].timer = IF ent[i].timer = "armed" THEN "cleared"
                                       ELSE ent[i].timer,
                          ![i].wt = WtOutcome(ent[i].race, Fallback(i))]
    /\ UNCHANGED <<now, cacheVars, fa, results, agg, dash, utilVars, extVars>>

\* The wrapper resumes after its await of withTimeout and fills the Map.
WrapResume(i) ==
    /\ Active(i)
    /\ ent[i].wt.st # "pending"
    /\ ent[i].wrap = "running"
    /\ results' = MapSet(results, fa.keys[i], WrapValue(ent[i].wt, Fallback(i)))
    /\ ent' = [ent EXCEPT ![i].wrap = "done"]
    /\ UNCHANGED <<now, cacheVars, fa, agg, dash, utilVars, extVars>>

\* await Promise.all(...) completes; return results.
FetchAllReturn ==
    /\ fa.st = "running"
    /\ AllWrappersDone(fa, ent)
    /\ fa' = [fa EXCEPT !.st = "returned"]
    /\ UNCHANGED <<now, cacheVars, ent, results, agg, dash, utilVars, extVars>>

\* A timer whose delay has elapsed and whose callback has not run yet.
TimerDue ==
    \E i \in EntryIds : Active(i) /\ ent[i].timer = "armed" /\ now >= fa.deadline

\* The clock of a running call: callbacks take no time, so the clock moves
\* on only when no reaction is queued and no timer is due; it may run past
\* MaxTime up to the deadline of the call in progress.
TimePasses ==
    /\ now < MaxTime \/ (fa.st = "running" /\ now < fa.deadline)
    /\ ~TimerDue
    /\ ~MicrotasksPending
    /\ now' = now + 1
    /\ UNCHANGED <<cacheVars, timeoutVars, agg, dash, utilVars, extVars>>

InitTimeout ==
    /\ fa = IdleFetch
    /\ ent = [i \in EntryIds |-> IdleEntry]
    /\ results = EmptyMap

(***************************************************************************)
(* Brand aggregators: getFirebloodData and getGtopData.                    *)
(*                                                                         *)
(* An aggregator asks each configured service for its figures, all at      *)
(* once (Promise.all), and builds the metric list from what comes back.    *)
(* The repository holds two generations of the services:                   *)
(*   "plain"   services/woocommerce.ts, services/ga4.ts: a failed request  *)
(*             rejects the service call;                                   *)
(*   "guarded" the cached services with timeouts: a failed or timed-out    *)
(*             request is caught inside the service, which fulfils with    *)
(*             an all-zero result.                                         *)
(* A service call is [st, a, b]: st is "null" (service not configured, the *)
(* aggregator passes null), "pending", "ok" or "err"; for order statistics *)
(* a = revenue and b = orders, for traffic a = sessions, for top products  *)
(* a = the number of products.  raw is what the provider itself did.       *)
(***************************************************************************)
Brands == {"fireblood", "gtop"}
Services == {"plain", "guarded"}
Labels == {"Revenue", "Orders", "AOV", "Sessions", "Conversion Rate", "Bounce Rate"}
OrderCounts == {0, 50}          \* orders the store reports for the window
SessionCounts == {0, 1000}      \* sessions analytics reports for the window

CallOf(st, a, b) == [st |-> st, a |-> a, b |-> b]
NullCall == CallOf("null", 0, 0)
PendingCall == CallOf("pending", 0, 0)

IdleAgg ==
    [st |-> "idle", brand |-> "fireblood", service |-> "plain",
     stats |-> NullCall, traffic |-> NullCall, top |-> NullCall,
     rawStats |-> "none", rawTraffic |-> "none", rawTop |-> "none",
     dataSource |-> "none",
     metrics |-> [l \in Labels |->
                    [present |-> FALSE, na |-> FALSE, num |-> 0, isLive |-> FALSE]]]

\* What a service call settles to when the provider's request failed or
\* timed out: the plain services rethrow, the guarded ones return zeros.
PlainFailure == CallOf("err", 0, 0)
GuardedFailure == CallOf("ok", 0, 0)

FailedCall(service) ==
    IF service = "plain" THEN PlainFailure ELSE GuardedFailure

\* periodStats / ga4Stats as the aggregator sees them: null, or an object.
HasData(call) == call.st = "ok"

Absent == [present |-> FALSE, na |-> FALSE, num |-> 0, isLive |-> FALSE]
NotAvailable == [present |-> TRUE, na |-> TRUE, num |-> 0, isLive |-> FALSE]
Shown(n, live) == [present |-> TRUE, na |-> FALSE, num |-> n, isLive |-> live]

\* value: x ? <number> : 'N/A',  isLive: !!x
Metric(has, n) == IF has THEN Shown(n, TRUE) ELSE NotAvailable

\* ((orders / sessions) * 100).toFixed(2), in hundredths of a percent
ToFixed2Percent(orders, sessions) ==
    (2 * orders * 10000 + sessions) \div (2 * sessions)

\* avgOrderValue = orderCount > 0 ? revenue / orderCount : 0, in pence
AvgOrderValue(revenue, orders) ==
    IF orders > 0 THEN (2 * revenue * 100 + orders) \div (2 * orders) ELSE 0

\* getFirebloodData, lines 37-98
FirebloodMetrics(stats, traffic) ==
    LET dtcRevenue == IF HasData(stats) THEN stats.a ELSE 0
        dtcOrders == IF HasData(stats) THEN stats.b ELSE 0
        hasConv == HasData(traffic) /\ traffic.a > 0
    IN [l \in Labels |->
         CASE l = "Revenue" -> Metric(HasData(stats), dtcRevenue)
           [] l = "Orders" -> Metric(HasData(stats), dtcOrders)
           [] l = "AOV" -> Metric(HasData(stats), AvgOrderValue(stats.a, stats.b))
           [] l = "Sessions" -> Metric(HasData(traffic), traffic.a)
           [] l = "Conversion Rate" ->
                IF hasConv
                THEN Shown(ToFixed2Percent(dtcOrders, traffic.a), TRUE)
                ELSE NotAvailable
           [] l = "Bounce Rate" -> Metric(HasData(traffic), 0)]

\* getGtopData, lines 36-90
GtopMetrics(stats, traffic) ==
    LET revenue == IF HasData(stats) THEN stats.a ELSE 0
        orders == IF HasData(stats) THEN stats.b ELSE 0
        sessions == IF HasData(traffic) THEN traffic.a ELSE 0
        convRate == IF sessions > 0 THEN ToFixed2Percent(orders, sessions) ELSE 0
    IN [l \in Labels |->
         CASE l = "Revenue" -> Metric(HasData(stats), revenue)
           [] l = "Orders" -> Metric(HasData(stats), orders)
           [] l = "AOV" -> Metric(HasData(stats), AvgOrderValue(stats.a, stats.b))
           [] l = "Sessions" -> Metric(HasData(traffic), sessions)
           [] l = "Conversion Rate" -> Shown(convRate, HasData(traffic))
           [] l = "Bounce Rate" -> Metric(HasData(traffic), 0)]

BrandMetrics(brand, stats, traffic) ==
    IF brand = "fireblood" THEN FirebloodMetrics(stats, traffic)
    ELSE GtopMetrics(stats, traffic)

AggCalls(a) == {a.stats, a.traffic, a.top}

\* await Promise.all([...]): rejected by the first rejection, fulfilled
\* once every element is.
AllRejected(a) == \E c \in AggCalls(a) : c.st = "err"
AllFulfilled(a) == \A c \in AggCalls(a) : c.st \in {"null", "ok"}

\* woo ? woo.getOrderStats(...) : null, and so on: the calls are started
\* together; a service that is not configured contributes null.
AggCall(brand, service, woo, ga4) ==
    /\ agg.st = "idle"
    /\ agg' = [IdleAgg EXCEPT
                 !.st = "running", !.brand = brand, !.service = service,
                 !.stats = IF woo THEN PendingCall ELSE NullCall,
                 !.top = IF woo THEN PendingCall ELSE NullCall,
                 !.traffic = IF ga4 THEN PendingCall ELSE NullCall]
    /\ UNCHANGED <<now, cacheVars, timeoutVars, dash, utilVars, extVars>>

\* The store answers the order-statistics request.
StatsOk(orders) ==
    /\ agg.stats.st = "pending"
    /\ agg' = [agg EXCEPT !.stats = CallOf("ok", orders * 10, orders),
                          !.rawStats = "ok"]
    /\ UNCHANGED <<now, cacheVars, timeoutVars, dash, utilVars, extVars>>

\* The order-statistics request fails (HTTP error, network, abort).
StatsFail ==
    /\ agg.stats.st = "pending"
    /\ agg' = [agg EXCEPT !.stats = FailedCall(agg.service), !.rawStats = "fail"]
    /\ UNCHANGED <<now, cacheVars, timeoutVars, dash, utilVars, extVars>>

TrafficOk(sessions) ==
    /\ agg.traffic.st = "pending"
    /\ agg' = [agg EXCEPT !.traffic = CallOf("ok", sessions, 0),
                          !.rawTraffic = "ok"]
    /\ UNCHANGED <<now, cacheVars, timeoutVars, dash, utilVars, extVars>>

TrafficFail ==
    /\ agg.traffic.st = "pending"
    /\ agg' = [agg EXCEPT !.traffic = FailedCall(agg.service),
                          !.rawTraffic = "fail"]
    /\ UNCHANGED <<now, cacheVars, timeoutVars, dash, utilVars, extVars>>

\* getTopProducts: the plain service lets a failed getOrders escape, the
\* guarded one catches it and returns [].
TopOk(products) ==
    /\ agg.top.st = "pending"
    /\ agg' = [agg EXCEPT !.top = CallOf("ok", products, 0), !.rawTop = "ok"]
    /\ UNCHANGED <<now, cacheVars, timeoutVars, dash, utilVars, extVars>>

TopFail ==
    /\ agg.top.st = "pending"
    /\ agg' = [agg EXCEPT !.top = FailedCall(agg.service), !.rawTop = "fail"]
    /\ UNCHANGED <<now, cacheVars, timeoutVars, dash, utilVars, extVars>>

\* The aggregator resumes after await Promise.all: it builds the payload,
\* or lands in its catch block and returns the error payload (metrics: []).
AggFinish ==
    /\ agg.st = "running"
    /\ AllRejected(agg) \/ AllFulfilled(agg)
    /\ IF AllRejected(agg)
       THEN agg' = [agg EXCEPT !.st = "done", !.dataSource = "error",
                               !.metrics = [l \in Labels |-> Absent]]
       ELSE agg' = [agg EXCEPT !.st = "done", !.dataSource = "live",
                               !.metrics = BrandMetrics(agg.brand, agg.stats,
                                                        agg.traffic)]
    /\ UNCHANGED <<now, cacheVars, timeoutVars, dash, utilVars, extVars>>

InitBrand == agg = IdleAgg

(***************************************************************************)
(* The dashboard's delta computation: metricsWithDeltas, with              *)
(* parseMetricValue and calculateDelta from the period utilities.          *)
(*                                                                         *)
(* A metric's value is the display string of the payload, a sequence of    *)
(* characters.  Numbers are kept in hundredths, so "5.25" is 525.  The     *)
(* strings of the model use digits, '.', a sign, the currency and percent  *)
(* signs, the thousands comma and the letters of 'N/A'; exponents and      *)
(* 'Infinity' do not occur in them.                                        *)
(***************************************************************************)
MaxMetrics == 2

Digits == {"0", "1", "2", "3", "4", "5", "6", "7", "8", "9"}
DigitVal(c) ==
    CASE c = "0" -> 0 [] c = "1" -> 1 [] c = "2" -> 2 [] c = "3" -> 3
      [] c = "4" -> 4 [] c = "5" -> 5 [] c = "6" -> 6 [] c = "7" -> 7
      [] c = "8" -> 8 [] c = "9" -> 9

\* value.replace(/[£$€,\s%]/g, '')
Stripped_NoCurrency == {",", " ", "%"}

Stripped == {"£", "$", "€", ",", " ", "%"}
KeepChar(c) == c \notin Stripped
Strip(value) == SelectSeq(value, KeepChar)

\* The length of the longest prefix of s made of digits.
LeadingDigits(s) ==
    CHOOSE n \in 0..Len(s) :
        /\ \A i \in 1..n : s[i] \in Digits
        /\ n = Len(s) \/ s[n + 1] \notin Digits

RECURSIVE DecimalValue(_)
DecimalValue(s) ==
    IF s = <<>> THEN 0
    ELSE DecimalValue(SubSeq(s, 1, Len(s) - 1)) * 10 + DigitVal(s[Len(s)])

\* parseFloat: an optional sign, digits, an optional fraction; whatever
\* follows is ignored; NaN when no digit was read.
ParseFloat(s) ==
    LET signed == s # <<>> /\ s[1] \in {"+", "-"}
        body == IF signed THEN Tail(s) ELSE s
        ni == LeadingDigits(body)
        rest == SubSeq(body, ni + 1, Len(body))
        hasDot == rest # <<>> /\ rest[1] = "."
        nf == IF hasDot THEN LeadingDigits(Tail(rest)) ELSE 0
        frac == IF hasDot THEN SubSeq(Tail(rest), 1, nf) ELSE <<>>
        hundredths ==
            IF nf = 0 THEN 0
            ELSE IF nf = 1 THEN DigitVal(frac[1]) * 10
            ELSE DigitVal(frac[1]) * 10 + DigitVal(frac[2])
        magnitude == DecimalValue(SubSeq(body, 1, ni)) * 100 + hundredths
    IN  IF ni = 0 /\ nf = 0
        THEN [nan |-> TRUE, val |-> 0]
        ELSE [nan |-> FALSE,
              val |-> IF signed /\ s[1] = "-" THEN 0 - magnitude ELSE magnitude]

\* isNaN(num) ? 0 : num
ParseMetricValue(value) ==
    LET num == ParseFloat(Strip(value))
    IN  IF num.nan THEN 0 ELSE num.val

\* A variant that reports no change whenever previous is 0.
CalculateDelta_ZeroPreviousFlat(current, previous) ==
    IF previous = 0
    THEN [percent |-> [num |-> 0, den |-> 1], absolute |-> current,
          direction |-> "flat"]
    ELSE [percent |-> [num |-> (current - previous) * 100, den |-> previous],
          absolute |-> current - previous,
          direction |-> "flat"]

\* calculateDelta: percent is kept exact, as the fraction num / den.
CalculateDelta(current, previous) ==
    IF previous = 0
    THEN [percent |-> [num |-> IF current > 0 THEN 100 ELSE 0, den |-> 1],
          absolute |-> current,
          direction |-> IF current > 0 THEN "up" ELSE "flat"]
    ELSE LET n == (current - previous) * 100
             sn == IF previous > 0 THEN n ELSE 0 - n
             sd == IF previous > 0 THEN previous ELSE 0 - previous
         IN [percent |-> [num |-> n, den |-> previous],
             absolute |-> current - previous,
             direction |-> IF 2 * sn > sd THEN "up"
                           ELSE IF 2 * sn < 0 - sd THEN "down" ELSE "flat"]

\* Display strings a payload's metric can carry.
NotAvailableText == <<"N", "/", "A">>
MetricValues ==
    { NotAvailableText,
      <<"£", "0">>,
      <<"£", "1", "0", "0">>,
      <<"£", "1", ",", "2", "0", "0">>,
      <<"5", ".", "2", "5", "%">> }

MetricLists == UNION { [1..n -> MetricValues] : n \in 0..MaxMetrics }

NoDelta(value) ==
    [value |-> value, hasDelta |-> FALSE, previousValue |-> <<>>,
     previousRaw |-> 0, currentRaw |-> 0,
     deltaPercent |-> [num |-> 0, den |-> 1], deltaAbsolute |-> 0]

\* if (!prevMetric || !comparisonEnabled) return metric
PassThrough(d, idx) ==
    \/ ~d.comparisonData.loaded
    \/ idx > Len(d.comparisonData.metrics)
    \/ ~d.comparisonEnabled

WithDelta(d, idx) ==
    IF PassThrough(d, idx) THEN NoDelta(d.data.metrics[idx])
    ELSE LET currentVal == ParseMetricValue(d.data.metrics[idx])
             prevVal == ParseMetricValue(d.comparisonData.metrics[idx])
             delta == CalculateDelta(currentVal, prevVal)
         IN [value |-> d.data.metrics[idx], hasDelta |-> TRUE,
             previousValue |-> d.comparisonData.metrics[idx],
             previousRaw |-> prevVal, currentRaw |-> currentVal,
             deltaPercent |-> delta.percent, deltaAbsolute |-> delta.absolute]

\* if (!data || !data.metrics) return []; else currentMetrics.map(...)
MetricsWithDeltas(d) ==
    IF ~d.data.loaded THEN <<>>
    ELSE [idx \in 1..Len(d.data.metrics) |-> WithDelta(d, idx)]

NoPayload == [loaded |-> FALSE, metrics |-> <<>>]
Payload(metrics) == [loaded |-> TRUE, metrics |-> metrics]
Payloads == {NoPayload} \cup {Payload(ms) : ms \in MetricLists}

IdleDash ==
    [data |-> NoPayload, comparisonData |-> NoPayload,
     comparisonEnabled |-> TRUE, rendered |-> FALSE, out |-> <<>>]

\* The memo is recomputed for the payloads and the toggle of this render.
Render ==
    /\ ~dash.rendered
    /\ dash' = [dash EXCEPT !.rendered = TRUE, !.out = MetricsWithDeltas(dash)]
    /\ UNCHANGED <<now, cacheVars, timeoutVars, agg, utilVars, extVars>>

\* handleComparisonToggle: setComparisonEnabled(prev => !prev)
HandleComparisonToggle ==
    /\ dash' = [dash EXCEPT !.comparisonEnabled = ~dash.comparisonEnabled,
                            !.rendered = FALSE, !.out = <<>>]
    /\ UNCHANGED <<now, cacheVars, timeoutVars, agg, utilVars, extVars>>

(***************************************************************************)
(* The overview aggregator getOverviewData (data/overview.ts) and the      *)
(* first getGtopData (data/gtop.ts).  Both import the plain services, keep *)
(* a mockData constant and fall back to it.  A metric here is              *)
(* [label, kind, num, isLive]: kind is "num" for a figure computed from    *)
(* provider data, "na" for the 'N/A' placeholder and "mock" for a figure   *)
(* copied from mockData; isLive is "true", "false" or "undefined" (the     *)
(* mockData metrics carry no isLive field).  Money with pence and rates    *)
(* are in hundredths.                                                      *)
(***************************************************************************)
OvWoo == {"firebloodWoo", "topgWoo", "dngWoo"}
OvGA4 == {"firebloodGA4", "topgGA4", "dngGA4"}
OvProviders == OvWoo \cup OvGA4

MockFigure(label, n) ==
    [label |-> label, kind |-> "mock", num |-> n, isLive |-> "undefined"]
LiveFigure(label, n) ==
    [label |-> label, kind |-> "num", num |-> n, isLive |-> "true"]
Placeholder(label) ==
    [label |-> label, kind |-> "na", num |-> 0, isLive |-> "false"]

\* value: x ? <figure> : 'N/A',  isLive: !!x
OvMetric(label, has, n) == IF has THEN LiveFigure(label, n) ELSE Placeholder(label)

\* mockData.metrics of overview.ts
OverviewMock ==
    << MockFigure("Total Revenue (All Brands)", 847230),
       MockFigure("Fireblood Revenue", 712154),
       MockFigure("Gtop Revenue", 98420),
       MockFigure("DNG Revenue", 36656),
       MockFigure("Total Customers", 14892),
       MockFigure("Blended CAC", 1640) >>

\* mockData.brandBreakdown of overview.ts
OverviewMockBreakdown ==
    << [name |-> "Fireblood", value |-> 712154, isLive |-> "undefined"],
       [name |-> "Gtop", value |-> 98420, isLive |-> "undefined"],
       [name |-> "DNG", value |-> 36656, isLive |-> "undefined"] >>

\* mockData.metrics of gtop.ts
GtopMock ==
    << MockFigure("Monthly Revenue", 98420),
       MockFigure("Orders", 1847),
       MockFigure("AOV", 5328),
       MockFigure("Conversion Rate", 210),
       MockFigure("Sessions", 87952),
       MockFigure("Returning Customers", 3400) >>

\* stats?.revenue || 0,  stats?.orders || 0,  ga4?.sessions || 0
RevenueOf(call) == IF HasData(call) THEN call.a ELSE 0
OrdersOf(call) == IF HasData(call) THEN call.b ELSE 0
SessionsOf(call) == IF HasData(call) THEN call.a ELSE 0

BoolText(b) == IF b THEN "true" ELSE "false"

\* getOverviewData, lines 73-148
OverviewMetrics(c) ==
    LET fbRev == RevenueOf(c["firebloodWoo"])
        topgRev == RevenueOf(c["topgWoo"])
        dngRev == RevenueOf(c["dngWoo"])
        totalRev == fbRev + topgRev + dngRev
        totalOrders == OrdersOf(c["firebloodWoo"]) + OrdersOf(c["topgWoo"])
                         + OrdersOf(c["dngWoo"])
        totalSessions == SessionsOf(c["firebloodGA4"]) + SessionsOf(c["topgGA4"])
                           + SessionsOf(c["dngGA4"])
        hasGA4 == \E p \in OvGA4 : HasData(c[p])
    IN << LiveFigure("Total Revenue", totalRev),
          OvMetric("Fireblood Revenue", HasData(c["firebloodWoo"]), fbRev),
          OvMetric("Gtop Revenue", HasData(c["topgWoo"]), topgRev),
          OvMetric("DNG Revenue", HasData(c["dngWoo"]), dngRev),
          OvMetric("Total Sessions", hasGA4, totalSessions),
          IF hasGA4 /\ totalSessions > 0
          THEN LiveFigure("Blended Conv Rate",
                          ToFixed2Percent(totalOrders, totalSessions))
          ELSE Placeholder("Blended Conv Rate") >>

\* realBrandBreakdown, lines 150-154
OverviewBreakdown(c) ==
    << [name |-> "Fireblood", value |-> RevenueOf(c["firebloodWoo"]),
        isLive |-> BoolText(HasData(c["firebloodWoo"]))],
       [name |-> "Gtop", value |-> RevenueOf(c["topgWoo"]),
        isLive |-> BoolText(HasData(c["topgWoo"]))],
       [name |-> "DNG", value |-> RevenueOf(c["dngWoo"]),
        isLive |-> BoolText(HasData(c["dngWoo"]))] >>

\* realMetrics of gtop.ts, lines 78-83: three figures from the store, then
\* mockData.metrics.slice(3) relabelled isLive: false.
NotLive(metric) == [metric EXCEPT !.isLive = "false"]

LegacyGtopMetrics(stats) ==
    << LiveFigure("Revenue", stats.a),
       LiveFigure("Orders", stats.b),
       LiveFigure("AOV", AvgOrderValue(stats.a, stats.b)),
       NotLive(GtopMock[4]), NotLive(GtopMock[5]), NotLive(GtopMock[6]) >>

\* getOverviewData of the later generation (the file imports the ads sheet
\* service), lines 64-147: no mock data; Total Orders instead of Total
\* Sessions; the rate whenever there are sessions.
Overview9Metrics(c) ==
    LET fbRev == RevenueOf(c["firebloodWoo"])
        topgRev == RevenueOf(c["topgWoo"])
        dngRev == RevenueOf(c["dngWoo"])
        totalRev == fbRev + topgRev + dngRev
        totalOrders == OrdersOf(c["firebloodWoo"]) + OrdersOf(c["topgWoo"])
                         + OrdersOf(c["dngWoo"])
        totalSessions == SessionsOf(c["firebloodGA4"]) + SessionsOf(c["topgGA4"])
                           + SessionsOf(c["dngGA4"])
    IN << LiveFigure("Total Revenue", totalRev),
          OvMetric("Fireblood Revenue", HasData(c["firebloodWoo"]), fbRev),
          OvMetric("Top G Revenue", HasData(c["topgWoo"]), topgRev),
          OvMetric("DNG Revenue", HasData(c["dngWoo"]), dngRev),
          LiveFigure("Total Orders", totalOrders),
          IF totalSessions > 0
          THEN LiveFigure("Blended Conv Rate",
                          ToFixed2Percent(totalOrders, totalSessions))
          ELSE Placeholder("Blended Conv Rate") >>

\* brandBreakdown, lines 143-147
Overview9Breakdown(c) ==
    << [name |-> "Fireblood", value |-> RevenueOf(c["firebloodWoo"]),
        isLive |-> BoolText(HasData(c["firebloodWoo"]))],
       [name |-> "Top G", value |-> RevenueOf(c["topgWoo"]),
        isLive |-> BoolText(HasData(c["topgWoo"]))],
       [name |-> "DNG", value |-> RevenueOf(c["dngWoo"]),
        isLive |-> BoolText(HasData(c["dngWoo"]))] >>

\* failed: the providers whose request failed or timed out in this
\* activation, whichever way the service reported it.
IdleOverview ==
    [st |-> "idle", fn |-> "overview", service |-> "plain", failed |-> {},
     call |-> [p \in OvProviders |-> NullCall],
     dataSource |-> "none", metrics |-> <<>>, brandBreakdown |-> <<>>]

\* return { ...mockData, dataSource: 'mock', ... }
MockPayload(o) ==
    [o EXCEPT !.st = "done", !.dataSource = "mock",
              !.metrics = IF o.fn = "overview" THEN OverviewMock ELSE GtopMock,
              !.brandBreakdown =
                  IF o.fn = "overview" THEN OverviewMockBreakdown ELSE <<>>]

OvRejected(o) == \E p \in OvProviders : o.call[p].st = "err"
OvFulfilled(o) == \A p \in OvProviders : o.call[p].st \in {"null", "ok"}

\* getOverviewData up to its await: the mock payload when no service is
\* configured, otherwise every configured service is called at once.
OverviewCall(cfg) ==
    /\ ovw.st = "idle"
    /\ IF \E p \in OvProviders : cfg[p]
       THEN ovw' = [IdleOverview EXCEPT
                      !.st = "running",
                      !.call = [p \in OvProviders |->
                                  IF cfg[p] THEN PendingCall ELSE NullCall]]
       ELSE ovw' = MockPayload(IdleOverview)
    /\ UNCHANGED <<now, cacheVars, timeoutVars, agg, dash, per, calc, extVars>>

\* The first getGtopData up to its await.
LegacyGtopCall(woo) ==
    /\ ovw.st = "idle"
    /\ IF woo
       THEN ovw' = [IdleOverview EXCEPT
                      !.st = "running", !.fn = "gtop",
                      !.call = [IdleOverview.call EXCEPT !["topgWoo"] = PendingCall]]
       ELSE ovw' = MockPayload([IdleOverview EXCEPT !.fn = "gtop"])
    /\ UNCHANGED <<now, cacheVars, timeoutVars, agg, dash, per, calc, extVars>>

OvStatsOk(p, orders) ==
    /\ p \in OvWoo
    /\ ovw.call[p].st = "pending"
    /\ ovw' = [ovw EXCEPT !.call[p] = CallOf("ok", orders * 10, orders)]
    /\ UNCHANGED <<now, cacheVars, timeoutVars, agg, dash, per, calc, extVars>>

OvTrafficOk(p, sessions) ==
    /\ p \in OvGA4
    /\ ovw.call[p].st = "pending"
    /\ ovw' = [ovw EXCEPT !.call[p] = CallOf("ok", sessions, 0)]
    /\ UNCHANGED <<now, cacheVars, timeoutVars, agg, dash, per, calc, extVars>>

\* The request of a plain service fails: the service call rejects.
OvFail(p) ==
    /\ ovw.call[p].st = "pending"
    /\ ovw.service = "plain"
    /\ ovw' = [ovw EXCEPT !.call[p] = PlainFailure, !.failed = @ \cup {p}]
    /\ UNCHANGED <<now, cacheVars, timeoutVars, agg, dash, per, calc, extVars>>

\* getOverviewData after await Promise.all, or in its catch block.
OverviewFinish ==
    /\ ovw.st = "running" /\ ovw.fn = "overview"
    /\ OvRejected(ovw) \/ OvFulfilled(ovw)
    /\ IF OvRejected(ovw)
       THEN ovw' = MockPayload(ovw)
       ELSE ovw' = [ovw EXCEPT !.st = "done", !.dataSource = "live",
                               !.metrics = OverviewMetrics(ovw.call),
                               !.brandBreakdown = OverviewBreakdown(ovw.call)]
    /\ UNCHANGED <<now, cacheVars, timeoutVars, agg, dash, per, calc, extVars>>

\* The later getOverviewData up to its await: every configured service is
\* called at once, whichever generation of the services is linked.
Overview9Call(cfg, service) ==
    /\ ovw.st = "idle"
    /\ ovw' = [IdleOverview EXCEPT
                  !.st = "running", !.fn = "overview9", !.service = service,
                  !.call = [p \in OvProviders |->
                              IF cfg[p] THEN PendingCall ELSE NullCall]]
    /\ UNCHANGED <<now, cacheVars, timeoutVars, agg, dash, per, calc, extVars>>

\* The request of a guarded service fails or times out: the service
\* catches it and answers with its all-zero result.
OvGuardedFail(p) ==
    /\ ovw.call[p].st = "pending"
    /\ ovw.service = "guarded"
    /\ ovw' = [ovw EXCEPT !.call[p] = GuardedFailure, !.failed = @ \cup {p}]
    /\ UNCHANGED <<now, cacheVars, timeoutVars, agg, dash, per, calc, extVars>>

\* return { metrics: [], brandBreakdown: [], ..., dataSource: 'error' }
ErrorPayload(o) ==
    [o EXCEPT !.st = "done", !.dataSource = "error", !.metrics = <<>>,
              !.brandBreakdown = <<>>]

\* getTrafficStats(...).catch(() => null)
CatchNull(call) == IF call.st = "err" THEN NullCall ELSE call

\* The later getOverviewData after await Promise.all, or in its catch: a
\* rejected getOrderStats rejects the whole, a rejected getTrafficStats is
\* null.
Overview9Finish ==
    /\ ovw.st = "running" /\ ovw.fn = "overview9"
    /\ \/ \E p \in OvWoo : ovw.call[p].st = "err"
       \/ \A p \in OvProviders : ovw.call[p].st # "pending"
    /\ IF \E p \in OvWoo : ovw.call[p].st = "err"
       THEN ovw' = ErrorPayload(ovw)
       ELSE LET c == [p \in OvProviders |-> CatchNull(ovw.call[p])]
            IN  ovw' = [ovw EXCEPT !.st = "done", !.dataSource = "live",
                                   !.metrics = Overview9Metrics(c),
                                   !.brandBreakdown = Overview9Breakdown(c)]
    /\ UNCHANGED <<now, cacheVars, timeoutVars, agg, dash, per, calc, extVars>>

\* The first getGtopData after await woo.getOrderStats, or in its catch.
LegacyGtopFinish ==
    /\ ovw.st = "running" /\ ovw.fn = "gtop"
    /\ ovw.call["topgWoo"].st \in {"ok", "err"}
    /\ IF ovw.call["topgWoo"].st = "err"
       THEN ovw' = MockPayload(ovw)
       ELSE ovw' = [ovw EXCEPT !.st = "done", !.dataSource = "live",
                               !.metrics = LegacyGtopMetrics(ovw.call["topgWoo"])]
    /\ UNCHANGED <<now, cacheVars, timeoutVars, agg, dash, per, calc, extVars>>

(***************************************************************************)
(* Period windows: getPeriodDates and getPreviousPeriodDates of the period *)
(* utilities, and getDateRange of the WooCommerce and GA4 services.        *)
(*                                                                         *)
(* A Date is [day, ms]: the local calendar day as a day number (days since *)
(* 1970-01-01) and the milliseconds elapsed in that day.  The date-fns     *)
(* functions work on local calendar days, which is what the day number     *)
(* stands for.                                                             *)
(***************************************************************************)
MsPerDay == 24 * 60 * 60 * 1000

Date(day, ms) == [day |-> day, ms |-> ms]

\* Day number of the civil date y-m-d (proleptic Gregorian calendar).
DaysFromCivil(y, m, d) ==
    LET yy == IF m <= 2 THEN y - 1 ELSE y
        era == yy \div 400
        yoe == yy - era * 400
        mp == IF m > 2 THEN m - 3 ELSE m + 9
        doy == (153 * mp + 2) \div 5 + d - 1
        doe == yoe * 365 + yoe \div 4 - yoe \div 100 + doy
    IN  era * 146097 + doe - 719468

\* The civil date of a day number.
CivilFromDays(z) ==
    LET zz == z + 719468
        era == zz \div 146097
        doe == zz - era * 146097
        yoe == (doe - doe \div 1460 + doe \div 36524 - doe \div 146096) \div 365
        doy == doe - (365 * yoe + yoe \div 4 - yoe \div 100)
        mp == (5 * doy + 2) \div 153
        d == doy - (153 * mp + 2) \div 5 + 1
        m == IF mp < 10 THEN mp + 3 ELSE mp - 9
    IN  [y |-> yoe + era * 400 + (IF m <= 2 THEN 1 ELSE 0), m |-> m, d |-> d]

IsLeapYear(y) == (y % 4 = 0 /\ y % 100 # 0) \/ y % 400 = 0

DaysInMonth(y, m) ==
    IF m = 2 THEN (IF IsLeapYear(y) THEN 29 ELSE 28)
    ELSE IF m \in {4, 6, 9, 11} THEN 30 ELSE 31

\* Date.getDay(): 0 is Sunday; 1970-01-01 was a Thursday.
GetDay(day) == (day + 4) % 7

\* An absent bound (undefined).  date-fns reads it as an Invalid Date, which
\* stays invalid under startOfDay and endOfDay; the same value stands for it.
Undefined == Date(0, 0 - 1)
IsValidDate(dt) == dt.ms >= 0

StartOfDay(dt) == IF IsValidDate(dt) THEN Date(dt.day, 0) ELSE Undefined
EndOfDay(dt) == IF IsValidDate(dt) THEN Date(dt.day, MsPerDay - 1) ELSE Undefined
SubDays(dt, n) == Date(dt.day - n, dt.ms)

\* subYears(date, 1): the same month and day one year earlier, the day
\* clamped to the length of that month (29 February becomes 28 February).
SubYears(dt, n) ==
    LET c == CivilFromDays(dt.day)
        last == DaysInMonth(c.y - n, c.m)
    IN  Date(DaysFromCivil(c.y - n, c.m, IF c.d > last THEN last ELSE c.d), dt.ms)

CompareAsc(l, r) ==
    IF l.day < r.day \/ (l.day = r.day /\ l.ms < r.ms) THEN 0 - 1
    ELSE IF l = r THEN 0 ELSE 1

Abs(n) == IF n < 0 THEN 0 - n ELSE n

\* differenceInDays(left, right): full days from right to left.
DifferenceInDays(left, right) ==
    LET sign == CompareAsc(left, right)
        difference == Abs(left.day - right.day)
        moved == Date(left.day - sign * difference, left.ms)
        isLastDayNotFull == IF CompareAsc(moved, right) = 0 - sign /\ sign # 0
                            THEN 1 ELSE 0
    IN  sign * (difference - isLastDayNotFull)

Window(start, end) == [isNull |-> FALSE, start |-> start, end |-> end]
NullWindow == [isNull |-> TRUE, start |-> Date(0, 0), end |-> Date(0, 0)]
NoRange == [given |-> FALSE, start |-> Date(0, 0), end |-> Date(0, 0)]
Range(start, end) == [given |-> TRUE, start |-> start, end |-> end]

Periods == {"today", "week", "month", "year", "custom"}
ComparisonPeriods == {"none", "previous_period", "previous_year"}

\* A variant that counts the days back as 7, 30 and 365.
GetPeriodDates_FullCountBack(nowDate, period, customRange) ==
    LET today == StartOfDay(nowDate)
        todayEnd == EndOfDay(nowDate)
    IN  CASE period = "today" -> Window(today, todayEnd)
          [] period = "week" -> Window(SubDays(today, 7), todayEnd)
          [] period = "month" -> Window(SubDays(today, 30), todayEnd)
          [] period = "year" -> Window(SubDays(today, 365), todayEnd)
          [] period = "custom" ->
                IF customRange.given
                THEN Window(StartOfDay(customRange.start), EndOfDay(customRange.end))
                ELSE Window(SubDays(today, 30), todayEnd)
          [] OTHER -> Window(SubDays(today, 30), todayEnd)

\* getPeriodDates(period, customRange), with  now = new Date()
GetPeriodDates(nowDate, period, customRange) ==
    LET today == StartOfDay(nowDate)
        todayEnd == EndOfDay(nowDate)
    IN  CASE period = "today" -> Window(today, todayEnd)
          [] period = "week" -> Window(SubDays(today, 6), todayEnd)
          [] period = "month" -> Window(SubDays(today, 29), todayEnd)
          [] period = "year" -> Window(SubDays(today, 364), todayEnd)
          [] period = "custom" ->
                IF customRange.given
                THEN Window(StartOfDay(customRange.start), EndOfDay(customRange.end))
                ELSE Window(SubDays(today, 29), todayEnd)
          [] OTHER -> Window(SubDays(today, 29), todayEnd)

\* A variant that shifts by the difference in days without the + 1.
GetPreviousPeriodDates_ShiftByDifference(currentDates, comparison) ==
    LET daysDiff == DifferenceInDays(currentDates.end, currentDates.start)
    IN  IF comparison = "none" THEN NullWindow
        ELSE IF comparison = "previous_year"
        THEN Window(SubYears(currentDates.start, 1), SubYears(currentDates.end, 1))
        ELSE Window(SubDays(currentDates.start, daysDiff),
                    SubDays(currentDates.end, daysDiff))

\* A variant that takes a year to be 365 days.
GetPreviousPeriodDates_YearOf365Days(currentDates, comparison) ==
    LET daysDiff == DifferenceInDays(currentDates.end, currentDates.start) + 1
    IN  IF comparison = "none" THEN NullWindow
        ELSE IF comparison = "previous_year"
        THEN Window(SubDays(currentDates.start, 365), SubDays(currentDates.end, 365))
        ELSE Window(SubDays(currentDates.start, daysDiff),
                    SubDays(currentDates.end, daysDiff))

\* getPreviousPeriodDates(currentDates, comparison)
GetPreviousPeriodDates(currentDates, comparison) ==
    LET daysDiff == DifferenceInDays(currentDates.end, currentDates.start) + 1
    IN  IF comparison = "none" THEN NullWindow
        ELSE IF comparison = "previous_year"
        THEN Window(SubYears(currentDates.start, 1), SubYears(currentDates.end, 1))
        ELSE Window(SubDays(currentDates.start, daysDiff),
                    SubDays(currentDates.end, daysDiff))

\* The dashboard route hands the services a date range only for period
\* 'custom' with both startDate and endDate in the request.
RouteDateRange(period, customRange) ==
    IF /\ period = "custom" /\ customRange.given
       /\ IsValidDate(customRange.start) /\ IsValidDate(customRange.end)
    THEN customRange
    ELSE NoRange

\* new Date('yyyy-MM-dd') is midnight UTC of that day: west of Greenwich its
\* local calendar day is the day before.
LocalDayOfIsoDate(day, west) == IF west THEN day - 1 ELSE day

\* WooCommerceService.getDateRange(period, customRange); the custom range
\* reaches the service as two 'yyyy-MM-dd' strings.
WooGetDateRange(nowDate, period, customRange, west) ==
    LET c == CivilFromDays(nowDate.day)
        before == Date(nowDate.day, MsPerDay - 1000)
        firstOfMonth == Date(DaysFromCivil(c.y, c.m, 1), 0)
    IN  IF period = "custom" /\ customRange.given
        THEN Window(Date(LocalDayOfIsoDate(customRange.start.day, west), 0),
                    Date(LocalDayOfIsoDate(customRange.end.day, west), MsPerDay - 1))
        ELSE CASE period = "today" -> Window(Date(nowDate.day, 0), before)
               [] period = "week" ->
                    Window(Date(nowDate.day - GetDay(nowDate.day), 0), before)
               [] period = "month" -> Window(firstOfMonth, before)
               [] period = "year" -> Window(Date(DaysFromCivil(c.y, 1, 1), 0), before)
               [] OTHER -> Window(firstOfMonth, before)

\* 'NdaysAgo' .. 'today', as GA4 reads them: whole days, both inclusive.
DaysAgo(nowDate, n) == Date(nowDate.day - n, 0)

\* GA4Service.getDateRange(period, customRange)
Ga4GetDateRange(nowDate, period, customRange) ==
    LET endDate == EndOfDay(nowDate)
    IN  IF period = "custom" /\ customRange.given
        THEN Window(StartOfDay(customRange.start), EndOfDay(customRange.end))
        ELSE CASE period = "today" -> Window(DaysAgo(nowDate, 0), endDate)
               [] period = "week" -> Window(DaysAgo(nowDate, 7), endDate)
               [] period = "month" -> Window(DaysAgo(nowDate, 30), endDate)
               [] period = "year" -> Window(DaysAgo(nowDate, 365), endDate)
               [] OTHER -> Window(DaysAgo(nowDate, 30), endDate)

\* The days on which a selection is made, the times of day, and the custom
\* ranges of the date picker (start <= end, nothing in the future), given
\* as days before today.
Todays ==
    { <<2024, 1, 1>>, <<2024, 2, 29>>, <<2024, 3, 1>>, <<2024, 3, 30>>,
      <<2024, 12, 30>>, <<2024, 12, 31>>, <<2025, 1, 4>>, <<2025, 1, 15>>,
      <<2025, 3, 1>>, <<2025, 12, 31>> }
TimesOfDay == {0, 12 * 60 * 60 * 1000}
RangeOffsets == {<<0, 0>>, <<2, 0>>, <<45, 2>>, <<45, 45>>, <<400, 366>>}

IdlePer ==
    [st |-> "idle", now |-> Date(0, 0), period |-> "month", customRange |-> NoRange,
     west |-> FALSE, comparison |-> "none", compared |-> FALSE,
     current |-> NullWindow, previous |-> NullWindow,
     woo |-> NullWindow, ga4 |-> NullWindow]

\* The component resolves the window of the selection.
ResolveCurrent ==
    /\ per.st = "chosen"
    /\ per.current.isNull
    /\ per' = [per EXCEPT !.current = GetPeriodDates(per.now, per.period,
                                                     per.customRange)]
    /\ UNCHANGED <<now, cacheVars, timeoutVars, agg, dash, ovw, calc, extVars>>

\* ... and its comparison window.
ResolvePrevious(comparison) ==
    /\ per.st = "chosen"
    /\ ~per.current.isNull
    /\ ~per.compared
    /\ per' = [per EXCEPT !.comparison = comparison, !.compared = TRUE,
                          !.previous = GetPreviousPeriodDates(per.current, comparison)]
    /\ UNCHANGED <<now, cacheVars, timeoutVars, agg, dash, ovw, calc, extVars>>

\* The order service resolves the same selection for its request.
WooResolve ==
    /\ per.st = "chosen"
    /\ per.woo.isNull
    /\ per' = [per EXCEPT !.woo =
                  WooGetDateRange(per.now, per.period,
                                  RouteDateRange(per.period, per.customRange),
                                  per.west)]
    /\ UNCHANGED <<now, cacheVars, timeoutVars, agg, dash, ovw, calc, extVars>>

\* The analytics service resolves the same selection for its request.
Ga4Resolve ==
    /\ per.st = "chosen"
    /\ per.ga4.isNull
    /\ per' = [per EXCEPT !.ga4 =
                  Ga4GetDateRange(per.now, per.period,
                                  RouteDateRange(per.period, per.customRange))]
    /\ UNCHANGED <<now, cacheVars, timeoutVars, agg, dash, ovw, calc, extVars>>

(***************************************************************************)
(* calculateDelta and parseMetricValue applied to inputs of their own.     *)
(***************************************************************************)
MaxLen == 3

\* Amounts in hundredths, chosen around zero and around the +-0.5 percent
\* thresholds of the direction.
Amounts == (0 - 2 .. 2) \cup {200, 201, 202} \cup {994, 995, 1000, 1005, 1006}

\* Characters of the strings handed to parseMetricValue.
Chars == {"£", "$", ",", " ", "%", ".", "-", "0", "1", "N", "/", "A"}
Strings(n) == UNION { [1..k -> Chars] : k \in 0..n }
ParseInputs == Strings(MaxLen) \cup MetricValues

NoDeltaResult == [percent |-> [num |-> 0, den |-> 1], absolute |-> 0,
                  direction |-> "flat"]

IdleCalc ==
    [fn |-> "none", done |-> FALSE, current |-> 0, previous |-> 0,
     value |-> <<>>, delta |-> NoDeltaResult, parsed |-> 0]

\* calculateDelta(current, previous) is called.
ApplyCalculateDelta ==
    /\ calc.fn = "calculateDelta" /\ ~calc.done
    /\ calc' = [calc EXCEPT !.done = TRUE,
                            !.delta = CalculateDelta(calc.current, calc.previous)]
    /\ UNCHANGED <<now, cacheVars, timeoutVars, agg, dash, ovw, per, extVars>>

\* parseMetricValue(value) is called.
ApplyParseMetricValue ==
    /\ calc.fn = "parseMetricValue" /\ ~calc.done
    /\ calc' = [calc EXCEPT !.done = TRUE, !.parsed = ParseMetricValue(calc.value)]
    /\ UNCHANGED <<now, cacheVars, timeoutVars, agg, dash, ovw, per, extVars>>

(***************************************************************************)
(* The dashboard component's requests (CEOWarRoom).                        *)
(*                                                                         *)
(* A selection is a tab and a period.  A payload is known by the selection *)
(* its request was issued for.  reqs and cmps count the requests in flight *)
(* per selection: fetch() is never aborted, so responses arrive in any     *)
(* order.  An action is one event with the commit that follows it: the     *)
(* state updates and the effects that React runs for the changed           *)
(* dependencies, which see the values of the render they belong to.        *)
(***************************************************************************)
MaxInFlight == 2

Tabs == {"overview", "fireblood"}
UiPeriods == {"month", "week"}
Selections == [tab : Tabs, period : UiPeriods]
NoSelection == [tab |-> "none", period |-> "none"]

IdleUi ==
    [mounted |-> FALSE, tab |-> "overview", period |-> "month",
     data |-> NoSelection, loading |-> TRUE, error |-> FALSE,
     comparisonEnabled |-> TRUE, comparisonData |-> NoSelection,
     comparisonLoading |-> FALSE,
     reqs |-> [s \in Selections |-> 0], cmps |-> [s \in Selections |-> 0]]

Selected(u) == [tab |-> u.tab, period |-> u.period]

RECURSIVE SumOver(_, _)
SumOver(f, S) ==
    IF S = {} THEN 0
    ELSE LET x == CHOOSE y \in S : TRUE IN f[x] + SumOver(f, S \ {x})

InFlight(u) == SumOver(u.reqs, Selections) + SumOver(u.cmps, Selections)

\* fetchData(tab, period, range) up to its await fetch(url)
FetchData(u, sel) ==
    [u EXCEPT !.loading = TRUE, !.error = FALSE, !.comparisonData = NoSelection,
              !.reqs[sel] = @ + 1]

\* fetchComparisonData() of the render r, up to its await fetch(url)
FetchComparisonData(r, u) ==
    IF ~r.comparisonEnabled THEN u
    ELSE [u EXCEPT !.comparisonLoading = TRUE, !.cmps[Selected(r)] = @ + 1]

\* The effect "fetch comparison data after main data loads", run in the
\* commit of render r while the state is u.
ComparisonEffect(r, u) ==
    IF r.data # NoSelection /\ r.comparisonEnabled /\ ~r.loading
    THEN FetchComparisonData(r, u)
    ELSE u

\* First commit: the fetch effect runs, the comparison effect finds no data.
Mount ==
    /\ ~ui.mounted
    /\ ui' = [ComparisonEffect(ui, FetchData(ui, Selected(ui))) EXCEPT !.mounted = TRUE]
    /\ UNCHANGED uiFrame

\* handleTabChange / handleTimePeriodChange with another selection: both
\* effects run in the commit of the render with the new selection; the
\* render that follows setLoading(true) finds loading set.
SelectionChange(tab, period) ==
    /\ ui.mounted
    /\ InFlight(ui) < MaxInFlight
    /\ <<tab, period>> # <<ui.tab, ui.period>>
    /\ LET r == [ui EXCEPT !.tab = tab, !.period = period]
       IN  ui' = ComparisonEffect(r, FetchData(r, Selected(r)))
    /\ UNCHANGED uiFrame

\* The response to a fetchData request arrives: setData(json), then
\* setLoading(false); the comparison effect runs for the new data.
FetchDataOk(sel) ==
    /\ ui.reqs[sel] > 0
    /\ LET u == [ui EXCEPT !.reqs[sel] = @ - 1, !.data = sel, !.loading = FALSE]
       IN  ui' = ComparisonEffect(u, u)
    /\ UNCHANGED uiFrame

\* The request fails: setError, then setLoading(false); the comparison
\* effect runs if loading changed.
FetchDataFail(sel) ==
    /\ ui.reqs[sel] > 0
    /\ LET u == [ui EXCEPT !.reqs[sel] = @ - 1, !.error = TRUE, !.loading = FALSE]
       IN  ui' = IF ui.loading THEN ComparisonEffect(u, u) ELSE u
    /\ UNCHANGED uiFrame

\* The response to a fetchComparisonData request arrives.
ComparisonOk(sel) ==
    /\ ui.cmps[sel] > 0
    /\ ui' = [ui EXCEPT !.cmps[sel] = @ - 1, !.comparisonData = sel,
                        !.comparisonLoading = FALSE]
    /\ UNCHANGED uiFrame

ComparisonFail(sel) ==
    /\ ui.cmps[sel] > 0
    /\ ui' = [ui EXCEPT !.cmps[sel] = @ - 1, !.comparisonData = NoSelection,
                        !.comparisonLoading = FALSE]
    /\ UNCHANGED uiFrame

\* handleComparisonToggle, and the comparison effect for the new value.
ToggleComparison ==
    /\ ui.mounted
    /\ InFlight(ui) < MaxInFlight
    /\ LET u == [ui EXCEPT !.comparisonEnabled = ~ui.comparisonEnabled]
       IN  ui' = ComparisonEffect(u, u)
    /\ UNCHANGED uiFrame

\* The Retry button of the error view.
Retry ==
    /\ ui.mounted /\ ~ui.loading /\ ui.error
    /\ InFlight(ui) < MaxInFlight
    /\ ui' = FetchData(ui, Selected(ui))
    /\ UNCHANGED uiFrame

(***************************************************************************)
(* The ads sheet service (GoogleAdsSheetService.getAccountSummary) and the *)
(* overview's blended ads figures.  A row of a sheet has the counts and    *)
(* amounts (money in pence) and the sheet's own ratio columns (in          *)
(* hundredths).  A ratio the code computes is kept as the exact fraction   *)
(* [num, den]; 0 is [0, 1].                                                *)
(***************************************************************************)
MaxRows == 2

Row(impressions, clicks, cost, conversions, convValue, ctr, cpc, cpa, roas) ==
    [impressions |-> impressions, clicks |-> clicks, cost |-> cost,
     conversions |-> conversions, convValue |-> convValue,
     ctr |-> ctr, cpc |-> cpc, cpa |-> cpa, roas |-> roas]

SheetRows ==
    { Row(1000, 10, 2000, 1, 6000, 100, 200, 2000, 300),
      Row(100, 5, 500, 2, 500, 500, 100, 250, 100),
      Row(50, 1, 100, 0, 0, 200, 100, 0, 0),
      Row(200, 0, 0, 0, 0, 0, 0, 0, 0),
      Row(0, 0, 0, 0, 0, 0, 0, 0, 0) }

Sheets == UNION { [1..n -> SheetRows] : n \in 0..MaxRows }
SheetNames == {"Fireblood", "TopG"}

Ratio(num, den) == [num |-> num, den |-> den]
ZeroRatio == Ratio(0, 1)

\* data.reduce((acc, row) => ({ ... }), { impressions: 0, ... })
RECURSIVE Reduce(_, _)
Reduce(data, n) ==
    IF n = 0
    THEN [impressions |-> 0, clicks |-> 0, spend |-> 0, conversions |-> 0,
          conversionValue |-> 0]
    ELSE LET acc == Reduce(data, n - 1)
             row == data[n]
         IN  [impressions |-> acc.impressions + row.impressions,
              clicks |-> acc.clicks + row.clicks,
              spend |-> acc.spend + row.cost,
              conversions |-> acc.conversions + row.conversions,
              conversionValue |-> acc.conversionValue + row.convValue]

RECURSIVE SumOfRoas(_, _)
SumOfRoas(data, n) == IF n = 0 THEN 0 ELSE SumOfRoas(data, n - 1) + data[n].roas

NullSummary ==
    [isNull |-> TRUE, impressions |-> 0, clicks |-> 0, spend |-> 0,
     conversions |-> 0, conversionValue |-> 0,
     ctr |-> ZeroRatio, avgCpc |-> ZeroRatio, cpa |-> ZeroRatio, roas |-> ZeroRatio]

\* A variant that reports the mean of the rows' own ROAS column.
GetAccountSummary_MeanOfRowRatios(data) ==
    IF Len(data) = 0 THEN NullSummary
    ELSE LET summary == Reduce(data, Len(data))
         IN  [isNull |-> FALSE,
              impressions |-> summary.impressions, clicks |-> summary.clicks,
              spend |-> summary.spend, conversions |-> summary.conversions,
              conversionValue |-> summary.conversionValue,
              ctr |-> IF summary.impressions > 0
                      THEN Ratio(summary.clicks * 100, summary.impressions)
                      ELSE ZeroRatio,
              avgCpc |-> IF summary.clicks > 0
                         THEN Ratio(summary.spend, summary.clicks) ELSE ZeroRatio,
              cpa |-> IF summary.conversions > 0
                      THEN Ratio(summary.spend, summary.conversions) ELSE ZeroRatio,
              roas |-> Ratio(SumOfRoas(data, Len(data)), 100 * Len(data))]

\* getAccountSummary(sheetName), for the rows getSheetData returned
GetAccountSummary(data) ==
    IF Len(data) = 0 THEN NullSummary
    ELSE LET summary == Reduce(data, Len(data))
         IN  [isNull |-> FALSE,
              impressions |-> summary.impressions, clicks |-> summary.clicks,
              spend |-> summary.spend, conversions |-> summary.conversions,
              conversionValue |-> summary.conversionValue,
              ctr |-> IF summary.impressions > 0
                      THEN Ratio(summary.clicks * 100, summary.impressions)
                      ELSE ZeroRatio,
              avgCpc |-> IF summary.clicks > 0
                         THEN Ratio(summary.spend, summary.clicks) ELSE ZeroRatio,
              cpa |-> IF summary.conversions > 0
                      THEN Ratio(summary.spend, summary.conversions) ELSE ZeroRatio,
              roas |-> IF summary.spend > 0
                       THEN Ratio(summary.conversionValue, summary.spend)
                       ELSE ZeroRatio]

\* x?.field || 0
OrZero(summary, n) == IF summary.isNull THEN 0 ELSE n

NoAdsSummary == [spend |-> 0, conversions |-> 0, revenue |-> 0, roas |-> ZeroRatio]

\* adsSummary of getOverviewData (totalAdSpend ... blendedRoas)
AdsSummary(firebloodAds, topgAds) ==
    LET totalAdSpend == OrZero(firebloodAds, firebloodAds.spend)
                          + OrZero(topgAds, topgAds.spend)
        totalAdConversions == OrZero(firebloodAds, firebloodAds.conversions)
                                + OrZero(topgAds, topgAds.conversions)
        totalAdRevenue == OrZero(firebloodAds, firebloodAds.conversionValue)
                            + OrZero(topgAds, topgAds.conversionValue)
    IN  [spend |-> totalAdSpend, conversions |-> totalAdConversions,
         revenue |-> totalAdRevenue,
         roas |-> IF totalAdSpend > 0 THEN Ratio(totalAdRevenue, totalAdSpend)
                  ELSE ZeroRatio]

\* got: the sheets whose summary has been computed; summary: what
\* getAccountSummary returned for them.
IdleAds ==
    [st |-> "idle", service |-> FALSE,
     sheet |-> [name \in SheetNames |-> <<>>], got |-> {},
     summary |-> [name \in SheetNames |-> NullSummary],
     adsSummary |-> NoAdsSummary]

\* adsService.getAccountSummary(name), one call per sheet.
AccountSummaryCall(name) ==
    /\ ads.st = "running" /\ ads.service
    /\ name \notin ads.got
    /\ ads' = [ads EXCEPT !.got = @ \cup {name},
                          !.summary[name] = GetAccountSummary(ads.sheet[name])]
    /\ UNCHANGED adsFrame

\* The overview sums the two summaries (null without the service).
AdsSummaryFinish ==
    /\ ads.st = "running"
    /\ ads.service => ads.got = SheetNames
    /\ ads' = [ads EXCEPT !.st = "done",
                          !.adsSummary = AdsSummary(ads.summary["Fireblood"],
                                                    ads.summary["TopG"])]
    /\ UNCHANGED adsFrame

(***************************************************************************)
(* WooCommerceService.getOrders and its page loop, in both generations of  *)
(* the service: "plain" fetches the pages and lets a failure reject;       *)
(* "guarded" runs the loop as the producer of cached(), keeps what it has  *)
(* collected when a page fails, and rethrows when it has nothing.          *)
(* A fetched page is [page, n]: its number and how many orders it held.    *)
(***************************************************************************)
PerPage == 100
PageLimit == 50
PageSizes == {0, 40, PerPage}
OrdersKey == "k1"

IdlePg ==
    [st |-> "idle", service |-> "plain", page |-> 0, allOrders |-> <<>>,
     count |-> 0, requested |-> <<>>, failed |-> FALSE, hit |-> FALSE,
     pre |-> NoEntry, ret |-> <<>>]

\* A variant with the safety limit one page later.
LastPage_LaterLimit(n, page) == n < PerPage \/ page + 1 > PageLimit + 1

\* if (orders.length < 100) break;  page++;  if (page > 50) break;
LastPage(n, page) == n < PerPage \/ page + 1 > PageLimit

\* A variant that rethrows whatever has been collected.
KeepsCollected_Never(count) == FALSE

\* catch: if (allOrders.length > 0) break; throw error;
KeepsCollected(count) == count > 0

\* The loop has ended normally: getOrders returns allOrders, through
\* cache.set in the guarded service.
Returned(g, st) ==
    /\ pg' = [g EXCEPT !.st = "returned", !.ret = g.allOrders]
    /\ store' = IF g.service = "guarded"
                THEN SetStore(st, OrdersKey, g.allOrders, StatsTTL, now, CACHE_VERSION)
                ELSE st

\* getOrders(period, customRange) up to its first await: the lookup of
\* cached() in the guarded service, then the request for page 1.  What is
\* stored under the key is an array, never null: cache.get's result is a
\* hit exactly when the entry is valid.
GetOrders(service) ==
    /\ pg.st # "fetching"
    /\ LET entry == store[OrdersKey]
           valid == entry.present /\ ~EntryInvalid(entry, now, CACHE_VERSION)
           after == GetStore(store, OrdersKey, now, CACHE_VERSION)
       IN  IF service = "guarded" /\ valid
           THEN /\ pg' = [IdlePg EXCEPT !.st = "returned", !.service = service,
                                        !.hit = TRUE, !.pre = entry,
                                        !.ret = entry.data]
                /\ store' = after
           ELSE /\ pg' = [IdlePg EXCEPT !.st = "fetching", !.service = service,
                                        !.page = 1, !.requested = <<1>>,
                                        !.pre = IF service = "guarded"
                                                THEN after[OrdersKey]
                                                ELSE store[OrdersKey]]
                /\ store' = IF service = "guarded" THEN after ELSE store
    /\ UNCHANGED ordersFrame

\* The page request is answered with n orders.
PageOk(n) ==
    /\ pg.st = "fetching"
    /\ LET g == [pg EXCEPT !.allOrders = Append(@, [page |-> pg.page, n |-> n]),
                           !.count = @ + n]
       IN  IF LastPage(n, pg.page)
           THEN Returned(g, store)
           ELSE /\ pg' = [g EXCEPT !.page = @ + 1,
                                   !.requested = Append(@, pg.page + 1)]
                /\ store' = store
    /\ UNCHANGED ordersFrame

\* The page request fails or is aborted by its timer.
PageFail ==
    /\ pg.st = "fetching"
    /\ LET g == [pg EXCEPT !.failed = TRUE]
       IN  IF g.service = "guarded" /\ KeepsCollected(g.count)
           THEN Returned(g, store)
           ELSE pg' = [g EXCEPT !.st = "threw"] /\ store' = store
    /\ UNCHANGED ordersFrame

InitServer ==
    /\ ui = IdleUi
    /\ pg = IdlePg
    /\ now = 0
    /\ CACHE_VERSION = 1
    /\ store = [k \in Keys |-> NoEntry]
    /\ calls = [c \in CallIds |-> IdleCall]
    /\ lastOp = NoOp
    /\ InitTimeout
    /\ InitBrand
    /\ ovw = IdleOverview

InitCache ==
    InitServer /\ dash = IdleDash /\ per = IdlePer /\ calc = IdleCalc /\ ads = IdleAds

\* Every pair of payloads the component can hold when it renders; the
\* comparison toggle starts enabled (useState(true)).
InitDelta ==
    /\ InitServer
    /\ ads = IdleAds
    /\ per = IdlePer
    /\ calc = IdleCalc
    /\ \E cur \in Payloads, prev \in Payloads :
          dash = [IdleDash EXCEPT !.data = cur, !.comparisonData = prev]

\* The Cache class driven directly: get, set, delete, clear.
NextCache ==
    \/ \E k \in Keys : Get(k)
    \/ \E k \in Keys, d \in Values, ttl \in TTLs : Set(k, d, ttl)
    \/ \E k \in Keys : Delete(k)
    \/ Clear
    \/ Tick
    \/ EpochChange

SpecCache == InitCache /\ [][NextCache]_vars

\* The cache as the services use it: through cached(), and the clear route.
\* CACHE_VERSION is a module constant, so within the process it never changes.
NextCached ==
    \/ \E c \in CallIds, k \in Keys, ttl \in TTLs : CachedCall(c, k, ttl)
    \/ \E c \in CallIds, r \in Values : FnFulfil(c, r)
    \/ \E c \in CallIds : FnReject(c)
    \/ Clear
    \/ Tick

SpecCached == InitCache /\ [][NextCached]_vars

\* The guarded services: calls for statistics, provider answers and
\* failures, the clear route and the clock.
NextService ==
    \/ \E c \in CallIds, k \in Keys : GetStats(c, k)
    \/ \E c \in CallIds : ProviderAnswers(c)
    \/ \E c \in CallIds : ProviderFails(c)
    \/ Clear
    \/ Tick

SpecService == InitCache /\ [][NextService]_vars

\* withTimeout and fetchAllWithTimeout under every order of settlements and
\* timer expiries.
OpStatuses == {"pending", "ok", "err"}

OpState(i, st) ==
    IF st = "ok" THEN Fulfilled(OpValue(i))
    ELSE IF st = "err" THEN Rejected
    ELSE Pending

NextTimeout ==
    \/ /\ fa.st = "idle"
       /\ \E n \in 0..MaxEntries, t \in Timeouts :
             \E keys \in [1..n -> MapKeys], sts \in [1..n -> OpStatuses] :
                 FetchAllCall(n, keys, t, [i \in 1..n |-> OpState(i, sts[i])])
    \/ \E i \in EntryIds : OpFulfil(i)
    \/ \E i \in EntryIds : OpReject(i)
    \/ \E i \in EntryIds : TimerFire(i)
    \/ \E i \in EntryIds : WtResume(i)
    \/ \E i \in EntryIds : WrapResume(i)
    \/ FetchAllReturn
    \/ Tick

SpecTimeout == InitCache /\ [][NextTimeout]_vars

\* Entry i's key when the keys of a call are all different.
KeyOf(i) == IF i = 1 THEN "a" ELSE IF i = 2 THEN "b" ELSE "c"

\* The same call, with distinct keys, under the event loop's guarantees: the clock advances,
\* due timers fire and queued reactions run.  Nothing obliges an operation
\* to settle.
NextTimeoutLive ==
    \/ /\ fa.st = "idle"
       /\ \E n \in 0..MaxEntries, t \in Timeouts :
            \E sts \in [1..n -> OpStatuses] :
                FetchAllCall(n, [i \in 1..n |-> KeyOf(i)], t,
                             [i \in 1..n |-> OpState(i, sts[i])])
    \/ \E i \in EntryIds : OpFulfil(i)
    \/ \E i \in EntryIds : OpReject(i)
    \/ \E i \in EntryIds : TimerFire(i)
    \/ \E i \in EntryIds : WtResume(i)
    \/ \E i \in EntryIds : WrapResume(i)
    \/ FetchAllReturn
    \/ TimePasses

EventLoop ==
    /\ WF_vars(TimePasses)
    /\ WF_vars(FetchAllReturn)
    /\ \A i \in EntryIds :
          WF_vars(TimerFire(i)) /\ WF_vars(WtResume(i)) /\ WF_vars(WrapResume(i))

SpecTimeoutLive == InitCache /\ [][NextTimeoutLive]_vars /\ EventLoop

\* One brand aggregation under every configuration and provider outcome.
NextBrand ==
    \/ \E brand \in Brands, service \in Services, woo \in BOOLEAN, ga4 \in BOOLEAN :
          AggCall(brand, service, woo, ga4)
    \/ \E orders \in OrderCounts : StatsOk(orders)
    \/ StatsFail
    \/ \E sessions \in SessionCounts : TrafficOk(sessions)
    \/ TrafficFail
    \/ \E products \in {0, 3} : TopOk(products)
    \/ TopFail
    \/ AggFinish

SpecBrand == InitCache /\ [][NextBrand]_vars

NextDelta == Render \/ HandleComparisonToggle

SpecDelta == InitDelta /\ [][NextDelta]_vars

\* One activation of getOverviewData or of the first getGtopData, under
\* every configuration and provider outcome.
NextOverview ==
    \/ \E cfg \in [OvProviders -> BOOLEAN] : OverviewCall(cfg)
    \/ \E woo \in BOOLEAN : LegacyGtopCall(woo)
    \/ \E p \in OvWoo, orders \in OrderCounts : OvStatsOk(p, orders)
    \/ \E p \in OvGA4, sessions \in SessionCounts : OvTrafficOk(p, sessions)
    \/ \E p \in OvProviders : OvFail(p)
    \/ OverviewFinish
    \/ LegacyGtopFinish
    \/ \E cfg \in [OvProviders -> BOOLEAN], service \in Services :
          Overview9Call(cfg, service)
    \/ \E p \in OvProviders : OvGuardedFail(p)
    \/ Overview9Finish

SpecOverview == InitCache /\ [][NextOverview]_vars

\* A selection: the day and time it is made, the period, the custom range
\* of the picker, and on which side of Greenwich the server runs.
InitPeriod ==
    /\ InitServer
    /\ ads = IdleAds
    /\ dash = IdleDash
    /\ calc = IdleCalc
    /\ \E t \in Todays, ms \in TimesOfDay, period \in Periods, west \in BOOLEAN :
       \E r \in {NoRange} \cup
                {Range(Date(DaysFromCivil(t[1], t[2], t[3]) - o[1], ms),
                       Date(DaysFromCivil(t[1], t[2], t[3]) - o[2], 0)) :
                   o \in RangeOffsets} :
          per = [IdlePer EXCEPT !.st = "chosen",
                                !.now = Date(DaysFromCivil(t[1], t[2], t[3]), ms),
                                !.period = period, !.customRange = r,
                                !.west = west]

NextPeriod ==
    \/ ResolveCurrent
    \/ \E comparison \in ComparisonPeriods : ResolvePrevious(comparison)
    \/ WooResolve
    \/ Ga4Resolve

SpecPeriod == InitPeriod /\ [][NextPeriod]_vars

\* The custom selection with every shape of range a caller can hand over:
\* none, both bounds, or one or both bounds absent.
PartialRanges(today) ==
    { Range(Undefined, Date(today, 0)), Range(Date(today - 2, 0), Undefined),
      Range(Undefined, Undefined) }

InitCustom ==
    /\ InitServer
    /\ ads = IdleAds
    /\ dash = IdleDash
    /\ calc = IdleCalc
    /\ \E t \in Todays, ms \in TimesOfDay, west \in BOOLEAN :
       LET today == DaysFromCivil(t[1], t[2], t[3])
       IN  \E r \in {NoRange} \cup PartialRanges(today) \cup
                    {Range(Date(today - o[1], ms), Date(today - o[2], 0)) :
                       o \in RangeOffsets} :
              per = [IdlePer EXCEPT !.st = "chosen", !.now = Date(today, ms),
                                    !.period = "custom", !.customRange = r,
                                    !.west = west]

NextCustom ==
    \/ ResolveCurrent
    \/ WooResolve
    \/ Ga4Resolve

SpecCustom == InitCustom /\ [][NextCustom]_vars

\* The component from its first render, under every order of selections,
\* toggles and responses.
NextComponent ==
    \/ Mount
    \/ \E tab \in Tabs, period \in UiPeriods : SelectionChange(tab, period)
    \/ \E sel \in Selections : FetchDataOk(sel)
    \/ \E sel \in Selections : FetchDataFail(sel)
    \/ \E sel \in Selections : ComparisonOk(sel)
    \/ \E sel \in Selections : ComparisonFail(sel)
    \/ ToggleComparison
    \/ Retry

SpecComponent == InitCache /\ [][NextComponent]_vars

\* The ads figures for every content of the two sheets, with and without
\* the sheet service.
InitAds ==
    /\ InitServer
    /\ dash = IdleDash /\ per = IdlePer /\ calc = IdleCalc
    /\ \E service \in BOOLEAN, fb \in Sheets, topg \in Sheets :
          ads = [IdleAds EXCEPT !.st = "running", !.service = service,
                                !.sheet = [name \in SheetNames |->
                                             IF name = "Fireblood" THEN fb ELSE topg]]

NextAds ==
    \/ \E name \in SheetNames : AccountSummaryCall(name)
    \/ AdsSummaryFinish

SpecAds == InitAds /\ [][NextAds]_vars

\* Activations of getOrders, one after the other, under every answer of
\* the store to the page requests.
NextOrders ==
    \/ \E service \in Services : GetOrders(service)
    \/ \E n \in PageSizes : PageOk(n)
    \/ PageFail

SpecOrders == InitCache /\ [][NextOrders]_vars

\* Every page request is answered or fails in the end (the abort timer of
\* fetchOrdersPage, the timeouts of the HTTP client).
PageSettles == (\E n \in PageSizes : PageOk(n)) \/ PageFail

SpecOrdersLive == SpecOrders /\ WF_vars(PageSettles)

\* Every application of the two utilities to the inputs of the model.
InitCalc ==
    /\ InitServer
    /\ ads = IdleAds
    /\ dash = IdleDash
    /\ per = IdlePer
    /\ \/ \E c \in Amounts, p \in Amounts :
             calc = [IdleCalc EXCEPT !.fn = "calculateDelta",
                                     !.current = c, !.previous = p]
       \/ \E v \in ParseInputs :
             calc = [IdleCalc EXCEPT !.fn = "parseMetricValue", !.value = v]

NextCalc == ApplyCalculateDelta \/ ApplyParseMetricValue

SpecCalc == InitCalc /\ [][NextCalc]_vars


(***************************************************************************)
(*                 Claims about the timeout guard                          *)
(***************************************************************************)

\* What entry i must yield: its operation's value when the operation
\* fulfilled before the timer fired, its own fallback when the operation
\* rejected first, timed out, or settled only after the timer had fired.
Expected(i) ==
    IF ent[i].op.st = "ok" /\ ~ent[i].late THEN OpValue(i) ELSE Fallback(i)

DistinctKeys == \A i, j \in 1..fa.n : i # j => fa.keys[i] # fa.keys[j]

\* C1: fetchAllWithTimeout never rejects and, for pairwise distinct keys,
\* returns a map whose key set is the set of input keys, each key mapped to
\* its own entry's value or fallback, whatever happened to the other entries.
C1_OneResultPerKey ==
    /\ fa.st \in {"idle", "running", "returned"}
    /\ \A i \in EntryIds : ent[i].wrap \in {"none", "running", "done"}
    /\ (fa.st = "returned" /\ DistinctKeys)
          => (/\ DOMAIN results = {fa.keys[i] : i \in 1..fa.n}
              /\ \A i \in 1..fa.n : results[fa.keys[i]] = Expected(i))

\* C1 witness: the call returned for keys a and b, a's operation having
\* rejected (fallback) and b's having fulfilled (its value).
C1_Witness ==
    /\ fa.st = "returned"
    /\ fa.n = 2
    /\ fa.keys[1] = "a" /\ fa.keys[2] = "b"
    /\ ent[1].op.st = "err" /\ ~ent[1].late
    /\ ent[2].op.st = "ok" /\ ~ent[2].late
    /\ results["a"] = Fallback(1)
    /\ results["b"] = OpValue(2)

\* C2: withTimeout never rejects; it fulfils with the operation's value when
\* the operation fulfils before the timer fires, and with the fallback when
\* the timer fires first or the operation rejects first.
C2_WithTimeoutNeverRejects ==
    \A i \in EntryIds :
        /\ ent[i].wt.st # "err"
        /\ ent[i].wt.st = "ok" => ent[i].wt.val = Expected(i)

\* C2 witness: one withTimeout fulfilled with the fallback because its
\* operation rejected before the timer fired, another because the timer
\* fired while its operation was pending.
C2_Witness ==
    \E i, j \in EntryIds :
        /\ ent[i].wt = Fulfilled(Fallback(i))
        /\ ent[i].op.st = "err" /\ ent[i].timer = "cleared"
        /\ ent[j].wt = Fulfilled(Fallback(j))
        /\ ent[j].op.st = "pending" /\ ent[j].timer = "fired"

(***************************************************************************)
(*                      Claims about the cache                             *)
(***************************************************************************)

\* C3: an entry stored with expiry e is never served by Cache.get at a time
\* now >= e (the instant now = e included): get returns null and the entry
\* is removed from the store.
C3_ExpiredEntryNeverServed ==
    (lastOp.op = "get" /\ lastOp.pre.present /\ lastOp.at >= lastOp.pre.expiry)
        => (lastOp.ret = NULL /\ ~store[lastOp.key].present)

\* C4: Cache.get never returns an entry whose version differs from the
\* current epoch (it returns null and evicts it, even with the TTL not
\* elapsed); set stamps the current epoch; and only a redeploy changes the
\* epoch.
C4_GetAndSet ==
    /\ (lastOp.op = "get" /\ lastOp.pre.present /\ lastOp.pre.version # lastOp.ver)
          => (lastOp.ret = NULL /\ ~store[lastOp.key].present)
    /\ (lastOp.op = "set")
          => (/\ lastOp.ver = CACHE_VERSION
              /\ store[lastOp.key].present
              /\ store[lastOp.key].version = CACHE_VERSION)

C4_StaleEpochNeverServed ==
    /\ []C4_GetAndSet
    /\ [][EpochChange \/ CACHE_VERSION' = CACHE_VERSION]_vars

\* C4 witness: a get found an unexpired entry of an earlier epoch, returned
\* null and evicted it.
C4_Witness ==
    /\ lastOp.op = "get"
    /\ lastOp.pre.present
    /\ lastOp.pre.version # lastOp.ver
    /\ lastOp.at < lastOp.pre.expiry
    /\ lastOp.ret = NULL
    /\ ~store[lastOp.key].present

\* C5: whenever the store holds an unexpired, current-epoch entry for key,
\* cached(key, fn, ttl) returns the stored data without invoking fn, whatever
\* the stored data is (null included).
C5_ValidEntryServedWithoutProducer ==
    [][\A c \in CallIds, k \in Keys, ttl \in TTLs :
        (/\ CachedCall(c, k, ttl)
         /\ store[k].present
         /\ now < store[k].expiry
         /\ store[k].version = CACHE_VERSION)
        => (/\ calls'[c].pc = "returned"
            /\ calls'[c].fnCalls = 0
            /\ calls'[c].ret = store[k].data)]_vars

\* C6 as stated: an activation that missed and whose producer rejected leaves
\* the store as it was before the activation started (no other operation
\* having touched the key in between).
C6_RejectLeavesStoreAsBeforeCall ==
    \A c \in CallIds :
        (calls[c].pc = "threw" /\ calls[c].alone)
            => store[calls[c].key].present = calls[c].preHad

\* C6 as amended: on a miss the producer is invoked exactly once; when it
\* fulfils with r the entry (r, now + ttl, current epoch) is stored under key
\* and r is returned; when it rejects, the rejection propagates and that step
\* writes nothing (the store stays as the initial lookup left it).
C6_MissInvokesOnceAndStores ==
    [][\A c \in CallIds :
        /\ (calls[c].pc # "awaiting" /\ calls'[c].pc = "awaiting")
              => calls'[c].fnCalls = 1
        /\ (calls[c].pc = "awaiting" /\ calls'[c].pc = "returned")
              => (/\ calls'[c].fnCalls = 1
                  /\ store'[calls[c].key] =
                       [present |-> TRUE,
                        data |-> calls'[c].ret,
                        expiry |-> now + (IF calls[c].ttl = NoTTL
                                          THEN 300000 ELSE calls[c].ttl),
                        version |-> CACHE_VERSION]
                  /\ \A k \in Keys \ {calls[c].key} : store'[k] = store[k])
        /\ (calls[c].pc = "awaiting" /\ calls'[c].pc = "threw")
              => (calls'[c].fnCalls = 1 /\ store' = store)]_vars

\* C6 witness: an activation found an expired entry under its key, evicted
\* it, invoked its producer once, and the producer rejected.
C6_Witness ==
    \E c \in CallIds :
        /\ calls[c].pc = "threw"
        /\ calls[c].fnCalls = 1
        /\ calls[c].alone
        /\ calls[c].preHad
        /\ ~store[calls[c].key].present


(***************************************************************************)
(*                   Claims about the brand aggregators                    *)
(***************************************************************************)
\* The provider behind a metric that one provider backs.
BackedBy(l) == IF l \in {"Revenue", "Orders", "AOV"} THEN "orders" ELSE "analytics"
SingleProvider == Labels \ {"Conversion Rate"}

\* The provider was not configured, or its request failed or timed out.
Unavailable(provider) ==
    IF provider = "orders" THEN agg.rawStats # "ok" ELSE agg.rawTraffic # "ok"

\* C7: once the aggregator has returned, every metric backed by a provider
\* that was not configured or whose call failed or timed out is in the
\* payload, reads 'N/A' and has isLive = false; it is neither left out nor
\* shown as a number.
C7_UnavailableProviderShowsNotAvailable ==
    agg.st = "done" =>
        \A l \in SingleProvider :
            Unavailable(BackedBy(l)) => agg.metrics[l] = NotAvailable

\* C8: in a returned brand payload the conversion-rate metric is a number
\* only when both the order provider and the analytics provider returned
\* data; when either is missing it reads 'N/A' with isLive = false.
C8_ConversionRateNeedsBothProviders ==
    (agg.st = "done" /\ agg.metrics["Conversion Rate"].present) =>
        \/ agg.rawStats = "ok" /\ agg.rawTraffic = "ok"
        \/ agg.metrics["Conversion Rate"] = NotAvailable

\* The service calls of this activation that rejected.
RejectedCalls == {c \in {"stats", "traffic", "top"} : agg[c].st = "err"}

\* C10: when exactly one provider call of an aggregation rejects and the
\* others deliver, the returned payload is not the error payload and the
\* metrics of the providers that delivered are present and live.
C10_OneFailureKeepsOtherMetrics ==
    (/\ agg.st = "done"
     /\ Cardinality(RejectedCalls) = 1
     /\ \A c \in {"stats", "traffic", "top"} \ RejectedCalls : agg[c].st = "ok")
    => /\ agg.dataSource # "error"
       /\ \A l \in SingleProvider :
            ~Unavailable(BackedBy(l)) =>
                agg.metrics[l].present /\ agg.metrics[l].isLive

(***************************************************************************)
(*                   Claims about the dashboard's deltas                   *)
(***************************************************************************)
\* The display string is a number parseFloat can read, not 'N/A'.
ObtainableNumber(value) == ~ParseFloat(Strip(value)).nan

\* C9: a rendered metric carries the delta fields exactly when comparison
\* is enabled, a previous payload with that metric was obtained, and both
\* the current and the previous value are numbers; 'N/A' on either side
\* suppresses the delta.
C9_DeltaOnlyBetweenNumbers ==
    dash.rendered =>
        \A idx \in 1..Len(dash.out) :
            dash.out[idx].hasDelta <=>
                /\ dash.comparisonEnabled
                /\ dash.comparisonData.loaded
                /\ idx <= Len(dash.comparisonData.metrics)
                /\ ObtainableNumber(dash.data.metrics[idx])
                /\ ObtainableNumber(dash.comparisonData.metrics[idx])


(***************************************************************************)
(*            Claims about getOverviewData and the first getGtopData       *)
(***************************************************************************)
\* C11: no payload an aggregator returns carries a hard-coded mock figure
\* as a metric value; a metric without provider data is the not-live
\* 'N/A' placeholder.
C11_NoMockFigures ==
    ovw.st = "done" =>
        \A i \in 1..Len(ovw.metrics) :
            /\ ovw.metrics[i].kind # "mock"
            /\ ovw.metrics[i].kind = "na" => ovw.metrics[i].isLive = "false"


(***************************************************************************)
(*           Claims about the timeout guard under the event loop           *)
(***************************************************************************)
\* C12: every call of withTimeout settles; when it has settled while its
\* operation is still pending, it has fulfilled with the fallback, and not
\* before timeoutMs had elapsed.
C12_WithTimeoutEventuallyFallsBack ==
    \A i \in EntryIds :
        /\ (Active(i) ~> ent[i].wt.st = "ok")
        /\ [](Active(i) /\ ent[i].wt.st # "pending" /\ ent[i].op.st = "pending"
                => ent[i].wt = Fulfilled(Fallback(i)) /\ now >= fa.deadline)

C12_Witness ==
    \E i \in EntryIds :
        /\ Active(i) /\ ent[i].op.st = "pending"
        /\ ent[i].timer = "fired"
        /\ ent[i].wt = Fulfilled(Fallback(i))

\* C13: once the timer has won the race, withTimeout's result is the
\* fallback and stays it: a settled withTimeout never changes, and an
\* operation that fulfils or rejects after the timer fired delivers
\* neither its value nor an error.
C13_LateSettlementChangesNothing ==
    /\ [](\A i \in EntryIds :
            (Active(i) /\ ent[i].timer = "fired" /\ ent[i].wt.st # "pending")
                => ent[i].wt = Fulfilled(Fallback(i)))
    /\ [][\A i \in EntryIds :
            (Active(i) /\ ent[i].wt.st # "pending") => ent'[i].wt = ent[i].wt]_vars

C13_Witness ==
    \E i \in EntryIds :
        /\ Active(i) /\ ent[i].late
        /\ ent[i].op.st = "err"
        /\ ent[i].wt = Fulfilled(Fallback(i))
        /\ fa.st = "returned" /\ results[fa.keys[i]] = Fallback(i)

\* C14: the call arms every entry's timer at the moment it is made, with
\* the deadline one timeout period later; whatever the operations do, it
\* returns, and it is never still running after the deadline.
C14_AllTimersStartAtTheCall ==
    /\ [][(fa.st = "idle" /\ fa'.st = "running")
            => /\ fa'.deadline = now + fa'.timeoutMs
               /\ \A i \in EntryIds : i <= fa'.n => ent'[i].timer = "armed"]_vars
    /\ [](fa.st = "running" => now <= fa.deadline)
    /\ (fa.st = "running" ~> fa.st = "returned")

C14_Witness ==
    /\ fa.st = "returned" /\ fa.n = MaxEntries
    /\ \A i \in EntryIds : ent[i].op.st = "pending" /\ ent[i].timer = "fired"
    /\ now = fa.deadline


(***************************************************************************)
(*                    The cache round trip (C15)                           *)
(***************************************************************************)
\* C15: set(k, v, ttl) at time t leaves under k the entry (v, t + ttl,
\* current epoch), with ttl = 5 minutes when omitted, whatever was there
\* before; and a get(k) that finds the entry of the current epoch at a time
\* before its expiry returns its value and leaves it in place.
C15_RoundTrip ==
    [][/\ \A k \in Keys, d \in Values, ttl \in TTLs :
            Set(k, d, ttl) =>
                store'[k] = [present |-> TRUE, data |-> d,
                             expiry |-> now + (IF ttl = NoTTL THEN 300000 ELSE ttl),
                             version |-> CACHE_VERSION]
       /\ \A k \in Keys :
            (/\ Get(k)
             /\ store[k].present
             /\ store[k].version = CACHE_VERSION
             /\ now < store[k].expiry)
            => (lastOp'.ret = store[k].data /\ store'[k] = store[k])]_vars

\* C15 witness: a get, later than the set that wrote the entry with the
\* default TTL, returned the stored value.
C15_Witness ==
    /\ lastOp.op = "get"
    /\ lastOp.pre.present
    /\ lastOp.pre.version = lastOp.ver
    /\ lastOp.pre.expiry >= 300000
    /\ lastOp.at + 300000 > lastOp.pre.expiry
    /\ lastOp.at < lastOp.pre.expiry
    /\ lastOp.ret = "v1"
    /\ store[lastOp.key] = lastOp.pre


(***************************************************************************)
(*                    Claims about the period windows                      *)
(***************************************************************************)
Presets == {"week", "month", "year"}

\* Two windows cover the same calendar days.
SameDays(w1, w2) == w1.start.day = w2.start.day /\ w1.end.day = w2.end.day

\* C16: for the preset periods week, month and year, the window a service
\* queries covers the same days as the rolling window getPeriodDates
\* returns for that period (7, 30, 365 days ending today).
C16_AdaptersUseTheRollingWindow ==
    (per.period \in Presets /\ ~per.current.isNull) =>
        /\ ~per.woo.isNull => SameDays(per.woo, per.current)
        /\ ~per.ga4.isNull => SameDays(per.ga4, per.current)

\* Inclusive length of a window in days.
InclusiveDays(w) == DifferenceInDays(w.end, w.start) + 1

\* C17: the 'previous_period' window of a window W lasts as many days as W
\* and ends on the calendar day just before W starts: the two neither
\* overlap nor leave a gap.
C17_PreviousPeriodAdjoins ==
    (per.compared /\ per.comparison = "previous_period") =>
        /\ ~per.previous.isNull
        /\ InclusiveDays(per.previous) = InclusiveDays(per.current)
        /\ per.previous.end.day = per.current.start.day - 1
        /\ per.previous.end = EndOfDay(per.previous.end)
        /\ per.previous.start = StartOfDay(per.previous.start)
        /\ CompareAsc(per.previous.end, per.current.start) = 0 - 1

C17_Witness ==
    /\ per.compared /\ per.comparison = "previous_period"
    /\ per.period = "custom" /\ per.customRange.given
    /\ per.customRange.start.ms # 0
    /\ InclusiveDays(per.current) = 44
    /\ per.previous.end.day = per.current.start.day - 1

\* Days from the start of a preset window to today.
DaysBack(period) ==
    CASE period = "today" -> 0 [] period = "week" -> 6
      [] period = "month" -> 29 [] period = "year" -> 364

\* C20: for today, week, month and year, getPeriodDates returns start <=
\* end, end the last millisecond of the current day and start the local
\* midnight 0, 6, 29 and 364 days before today: 1, 7, 30 and 365 days.
C20_PresetWindows ==
    (per.period \in {"today", "week", "month", "year"} /\ ~per.current.isNull) =>
        /\ CompareAsc(per.current.start, per.current.end) = 0 - 1
        /\ per.current.end = [day |-> per.now.day, ms |-> 86399999]
        /\ per.current.start = [day |-> per.now.day - DaysBack(per.period), ms |-> 0]
        /\ InclusiveDays(per.current) = DaysBack(per.period) + 1

C20_Witness ==
    /\ per.period = "year" /\ ~per.current.isNull
    /\ per.now.ms # 0
    /\ per.now.day = DaysFromCivil(2024, 3, 1)
    /\ per.current.start.day = DaysFromCivil(2023, 3, 3)
    /\ InclusiveDays(per.current) = 365


(***************************************************************************)
(*            Claims about calculateDelta and parseMetricValue             *)
(***************************************************************************)
\* C18: calculateDelta(current, previous) is the reference: with previous
\* # 0, percent = (current - previous) / previous * 100, absolute = current
\* - previous, direction 'up' above 0.5, 'down' below -0.5, else 'flat';
\* with previous = 0, percent is 100 if current > 0 else 0, absolute is
\* current and direction is 'up' if current > 0 else 'flat'.
C18_CalculateDeltaIsTheReference ==
    (calc.fn = "calculateDelta" /\ calc.done) =>
        LET c == calc.current
            p == calc.previous
            out == calc.delta
            n == (c - p) * 100
        IN  IF p = 0
            THEN /\ out.percent.den # 0
                 /\ out.percent.num = (IF c > 0 THEN 100 ELSE 0) * out.percent.den
                 /\ out.absolute = c
                 /\ out.direction = (IF c > 0 THEN "up" ELSE "flat")
            ELSE /\ out.percent.den # 0
                 /\ out.percent.num * p = n * out.percent.den
                 /\ out.absolute = c - p
                 /\ out.direction =
                      (IF (p > 0 /\ 2 * n > p) \/ (p < 0 /\ 2 * n < p) THEN "up"
                       ELSE IF (p > 0 /\ 2 * n < 0 - p) \/ (p < 0 /\ 2 * n > 0 - p)
                            THEN "down" ELSE "flat")

C18_Witness ==
    /\ calc.fn = "calculateDelta" /\ calc.done
    /\ calc.current = 994 /\ calc.previous = 1000
    /\ calc.delta.direction = "down"
    /\ calc.delta.absolute = 0 - 6

\* The input has no digit at all.
NoDigit(value) == \A i \in 1..Len(value) : value[i] \notin Digits

\* The input with the currency signs, commas, blanks and percent signs
\* taken out.
Bare(value) ==
    SelectSeq(value, LAMBDA ch : ch \notin {"£", "$", "€", ",", " ", "%"})

\* C19: parseMetricValue returns a number for every string: the same
\* number as for the string without its currency signs, separators, blanks
\* and percent signs, and 0 for a string that holds no number ('N/A', the
\* empty string).
C19_ParseMetricValueIsTotal ==
    (calc.fn = "parseMetricValue" /\ calc.done) =>
        /\ calc.parsed \in Int
        /\ calc.parsed = ParseMetricValue(Bare(calc.value))
        /\ NoDigit(calc.value) => calc.parsed = 0
        /\ calc.value = <<"£", "1", ",", "2", "0", "0">> => calc.parsed = 120000
        /\ calc.value = <<"$", "1", "0">> => calc.parsed = 1000
        /\ calc.value = <<"5", ".", "2", "5", "%">> => calc.parsed = 525

C19_Witness ==
    /\ calc.fn = "parseMetricValue" /\ calc.done
    /\ calc.value = <<"N", "/", "A">>
    /\ calc.parsed = 0


(***************************************************************************)
(*              Claims about the comparison and custom windows             *)
(***************************************************************************)
\* The same date and time of day one calendar year earlier; 29 February,
\* which the earlier year does not have, becomes 28 February.
OneYearEarlier(dt) ==
    LET c == CivilFromDays(dt.day)
    IN  IF c.m = 2 /\ c.d = 29
        THEN [day |-> DaysFromCivil(c.y - 1, 2, 28), ms |-> dt.ms]
        ELSE [day |-> DaysFromCivil(c.y - 1, c.m, c.d), ms |-> dt.ms]

\* C21: the 'previous_year' window of a window W has W's start and W's end
\* each moved back one calendar year, same month, day and time of day, not
\* 365 days; and the comparison 'none' yields null.
C21_PreviousYearIsACalendarYear ==
    /\ (per.compared /\ per.comparison = "previous_year") =>
          /\ ~per.previous.isNull
          /\ per.previous.start = OneYearEarlier(per.current.start)
          /\ per.previous.end = OneYearEarlier(per.current.end)
    /\ (per.compared /\ per.comparison = "none") => per.previous.isNull

\* C21 witness: a window ending on 15 January 2025, whose end moves back
\* across 29 February 2024 (366 days) while its start moves by 365 days.
C21_Witness ==
    /\ per.compared /\ per.comparison = "previous_year"
    /\ per.period = "year"
    /\ per.now.day = DaysFromCivil(2025, 1, 15)
    /\ per.previous.start.day = per.current.start.day - 365
    /\ per.previous.end.day = per.current.end.day - 366

\* Both bounds of the range were supplied.
BothBounds(r) == r.given /\ r.start.ms >= 0 /\ r.end.ms >= 0

C23_ComparisonAfterCurrent ==
    [][\A sel \in Selections :
          ui'.cmps[sel] > ui.cmps[sel] =>
              (ui'.reqs[sel] = 0 /\ ui'.data = sel)]_vars

\* The payload belongs to the selection on display.
OfSelection(payload, u) == payload = NoSelection \/ payload = Selected(u)

\* C26: whenever loading and comparisonLoading are both false, the payload
\* on display and the comparison payload are those of the selected tab and
\* period; and the response to a request issued for another selection
\* never replaces the payload of the current selection.
C26_PayloadsBelongToTheSelection ==
    /\ [](( ui.mounted /\ ~ui.loading /\ ~ui.comparisonLoading /\ ~ui.error)
            => (OfSelection(ui.data, ui) /\ OfSelection(ui.comparisonData, ui)))
    /\ [][\A sel \in Selections :
            (FetchDataOk(sel) /\ sel # Selected(ui) /\ ui.data = Selected(ui))
                => ui'.data = ui.data]_vars

(***************************************************************************)
(*                   Claims about the overview totals                      *)
(***************************************************************************)
\* The order provider of each brand, in the order of the payload's brand
\* metrics (2..4) and of brandBreakdown (1..3).
BrandWoo == <<"firebloodWoo", "topgWoo", "dngWoo">>

\* The brand's order provider was not configured, or its request failed.
BrandUnavailable(i) ==
    ovw.call[BrandWoo[i]].st # "ok" \/ BrandWoo[i] \in ovw.failed

BrandRevenue(i) == IF BrandUnavailable(i) THEN 0 ELSE ovw.call[BrandWoo[i]].a

\* C24: in the overview payload the revenue total is the sum of the revenues
\* of the brands whose order provider returned data; an unavailable brand
\* counts 0, is in brandBreakdown with value 0 and isLive false, and has
\* 'N/A' as its revenue metric.
C24_TotalIsTheSumOfAvailableBrands ==
    (ovw.st = "done" /\ ovw.fn \in {"overview", "overview9"}) =>
        /\ Len(ovw.metrics) >= 4 /\ Len(ovw.brandBreakdown) = 3
        /\ ovw.metrics[1].num = BrandRevenue(1) + BrandRevenue(2) + BrandRevenue(3)
        /\ \A i \in 1..3 :
              BrandUnavailable(i) =>
                  /\ ovw.brandBreakdown[i].value = 0
                  /\ ovw.brandBreakdown[i].isLive = "false"
                  /\ ovw.metrics[i + 1].kind = "na"

(***************************************************************************)
(*                     Claims about the ads figures                        *)
(***************************************************************************)
RECURSIVE Total(_, _, _)
Total(data, column, n) ==
    IF n = 0 THEN 0 ELSE Total(data, column, n - 1) + data[n][column]

\* The fraction r is the quotient a / b, or 0 when b is 0.
IsQuotient(r, a, b) ==
    /\ r.den # 0
    /\ IF b = 0 THEN r.num = 0 ELSE r.num * b = a * r.den

\* C25: getAccountSummary returns null for a sheet without rows and
\* otherwise the ratios of the column totals: CTR = clicks / impressions *
\* 100, CPC = spend / clicks, CPA = spend / conversions, ROAS = conversion
\* value / spend, each 0 when its denominator total is 0, whatever the
\* rows' own ratio columns hold; the overview's blended ROAS is the total
\* conversion value over the total spend of the brands, 0 without spend.
C25_RatiosOfTotals ==
    /\ \A name \in ads.got :
          LET data == ads.sheet[name]
              n == Len(data)
              out == ads.summary[name]
              impressions == Total(data, "impressions", n)
              clicks == Total(data, "clicks", n)
              spend == Total(data, "cost", n)
              conversions == Total(data, "conversions", n)
              value == Total(data, "convValue", n)
          IN  IF n = 0 THEN out.isNull
              ELSE /\ ~out.isNull
                   /\ IsQuotient(out.ctr, clicks * 100, impressions)
                   /\ IsQuotient(out.avgCpc, spend, clicks)
                   /\ IsQuotient(out.cpa, spend, conversions)
                   /\ IsQuotient(out.roas, value, spend)
    /\ ads.st = "done" =>
          LET fb == ads.sheet["Fireblood"]
              topg == ads.sheet["TopG"]
              spend == IF ads.service
                       THEN Total(fb, "cost", Len(fb)) + Total(topg, "cost", Len(topg))
                       ELSE 0
              value == IF ads.service
                       THEN Total(fb, "convValue", Len(fb))
                              + Total(topg, "convValue", Len(topg))
                       ELSE 0
          IN  /\ ads.adsSummary.spend = spend
              /\ ads.adsSummary.revenue = value
              /\ IsQuotient(ads.adsSummary.roas, value, spend)

\* C25 witness: two rows whose own ROAS columns (3.00 and 1.00) average 2,
\* while the totals give 6500 / 2500; and a blended ROAS over both brands.
C25_Witness ==
    /\ ads.st = "done" /\ ads.service
    /\ Len(ads.sheet["Fireblood"]) = 2
    /\ ads.sheet["Fireblood"][1].roas = 300 /\ ads.sheet["Fireblood"][2].roas = 100
    /\ ads.summary["Fireblood"].roas = [num |-> 6500, den |-> 2500]
    /\ ads.summary["TopG"].spend = 100
    /\ ads.adsSummary.roas = [num |-> 6500, den |-> 2600]

(***************************************************************************)
(*              Claims about overlapping and failed cached calls           *)
(***************************************************************************)
\* Another activation of cached() is suspended on the key of c.
Overlapping(c, k) ==
    \E d \in CallIds \ {c} : calls[d].pc = "awaiting" /\ calls[d].key = k

\* C27: a cached(key) call made while another one on the same key is
\* waiting for its producer and no valid entry exists invokes its own
\* producer, once, and leaves the other waiting; each of the two returns
\* what its own producer gave; and each writes the entry when its producer
\* finishes, so that after both the entry is the one of the later finisher.
C27_OverlappingCallsEachProduce ==
    [][\A c \in CallIds :
         /\ \A k \in Keys, ttl \in TTLs :
               (/\ CachedCall(c, k, ttl)
                /\ Overlapping(c, k)
                /\ (~store[k].present \/ now > store[k].expiry
                      \/ store[k].version # CACHE_VERSION))
               => /\ calls'[c].pc = "awaiting" /\ calls'[c].fnCalls = 1
                  /\ \A d \in CallIds \ {c} : calls'[d].pc = calls[d].pc
         /\ \A r \in Values :
               FnFulfil(c, r)
               => /\ calls'[c].pc = "returned"
                  /\ calls'[c].ret = r /\ calls'[c].fnCalls = 1
                  /\ store'[calls[c].key].present
                  /\ store'[calls[c].key].data = r
                  /\ store'[calls[c].key].version = CACHE_VERSION
                  /\ \A d \in CallIds \ {c} :
                        calls'[d].pc = calls[d].pc /\ calls'[d].ret = calls[d].ret]_vars

\* C27 witness: c1 and c2 both missed on k1 and invoked their producers;
\* c2's has finished and its result is stored, while c1, which saw the key
\* written under it, still waits for its own producer.
C27_Witness ==
    /\ calls["c1"].pc = "awaiting" /\ calls["c2"].pc = "returned"
    /\ calls["c1"].key = "k1" /\ calls["c2"].key = "k1"
    /\ calls["c1"].fnCalls = 1 /\ calls["c2"].fnCalls = 1
    /\ ~calls["c1"].preHad /\ ~calls["c1"].alone
    /\ calls["c2"].ret = "v1"
    /\ store["k1"].present /\ store["k1"].data = "v1"

\* C28: when the provider's request fails or times out, the all-zero
\* result is returned and stored under the call's key like any result; and
\* a call on that key before the entry expires returns the zeros from the
\* store, without a request to the provider and without touching the entry.
C28_FallbackIsCached ==
    [][\A c \in CallIds :
         /\ ProviderFails(c)
            => /\ calls'[c].pc = "returned" /\ calls'[c].ret = "zeros"
               /\ store'[calls[c].key] =
                     [present |-> TRUE, data |-> "zeros", expiry |-> now + 1,
                      version |-> CACHE_VERSION]
         /\ \A k \in Keys :
               (/\ GetStats(c, k)
                /\ store[k].present /\ store[k].data = "zeros"
                /\ now < store[k].expiry)
               => /\ calls'[c].pc = "returned" /\ calls'[c].ret = "zeros"
                  /\ calls'[c].fnCalls = 0
                  /\ store' = store]_vars

\* C28 witness: c1's request failed at time 0 and the zeros were stored
\* until 1; c2, called on the same key, got the zeros without a request.
C28_Witness ==
    /\ calls["c1"].pc = "returned" /\ calls["c1"].fnCalls = 1
    /\ calls["c1"].ret = "zeros"
    /\ calls["c2"].pc = "returned" /\ calls["c2"].fnCalls = 0
    /\ calls["c2"].ret = "zeros"
    /\ calls["c1"].key = calls["c2"].key
    /\ store[calls["c1"].key].data = "zeros"
    /\ store[calls["c1"].key].expiry = 1

(***************************************************************************)
(*                     Claims about the order pages                        *)
(***************************************************************************)
\* C29: in the cached getOrders, when a page request has failed the call
\* returns what it had collected, and that is stored under the key, if it
\* had collected at least one order; with nothing collected it throws and
\* the key's entry is left as it was.
C29_FailedPageKeepsOrRethrows ==
    (pg.service = "guarded" /\ pg.failed /\ pg.st # "fetching") =>
        IF pg.count > 0
        THEN /\ pg.st = "returned"
             /\ pg.ret = pg.allOrders
             /\ store["k1"].present /\ store["k1"].data = pg.allOrders
        ELSE /\ pg.st = "threw"
             /\ pg.allOrders = <<>>
             /\ store["k1"] = pg.pre

\* C29 witness: two full pages came, the third request failed; the 200
\* orders were returned and stored.
C29_Witness ==
    /\ pg.service = "guarded" /\ pg.failed /\ pg.st = "returned"
    /\ pg.requested = <<1, 2, 3>>
    /\ pg.count = 200
    /\ store["k1"].data = <<[page |-> 1, n |-> 100], [page |-> 2, n |-> 100]>>

\* C30: the pages are requested in the order 1, 2, 3, ..., never more than
\* 50 of them; a page is requested only after full pages; what is returned
\* is the fetched pages in page order, ending with the first page of fewer
\* than 100 orders, with page 50 or with a failed request; and every
\* activation comes to an end.
C30_PageLoopTerminates ==
    /\ [](/\ Len(pg.requested) <= 50
          /\ \A i \in 1..Len(pg.requested) : pg.requested[i] = i
          /\ \A i \in 1..Len(pg.allOrders) :
                /\ pg.allOrders[i].page = i
                /\ i < Len(pg.requested) => pg.allOrders[i].n = 100
          /\ pg.st = "fetching" => Len(pg.allOrders) = Len(pg.requested) - 1
          /\ (pg.st = "returned" /\ ~pg.hit) =>
                /\ pg.ret = pg.allOrders
                /\ Len(pg.allOrders) = Len(pg.requested) - (IF pg.failed THEN 1 ELSE 0)
                /\ \/ pg.failed
                   \/ pg.allOrders[Len(pg.allOrders)].n < 100
                   \/ Len(pg.requested) = 50)
    /\ (pg.st = "fetching" ~> pg.st \in {"returned", "threw"})

\* C30 witness: fifty full pages were fetched and returned.
C30_Witness ==
    /\ pg.st = "returned" /\ ~pg.hit /\ ~pg.failed
    /\ Len(pg.requested) = 50
    /\ pg.count = 5000
    /\ pg.allOrders[50] = [page |-> 50, n |-> 100]

====
